---- MODULE Spec2Model ----
(***************************************************************************)
(* A model of pitchtools (src/pitchtools.py): the notename grammar (n2m,   *)
(* split_notename, is_valid_notename), the formatter (m2n), NotatedPitch,  *)
(* enharmonic, transpose and enharmonic_variations.                        *)
(*                                                                         *)
(* Representation.                                                         *)
(*   - A Python str is a sequence of characters; a character is a one-     *)
(*     letter TLA+ string ("4", "C", "#").  The two arrow characters of    *)
(*     the grammar are written "uparrow" and "downarrow".                  *)
(*   - A midinote is an integer number of cents (hundredths of a           *)
(*     semitone): 60.25 is 6025.  The code computes them as floats; on the *)
(*     1-cent grid the float results agree with the integers to 1e-9,      *)
(*     except where the code truncates a float product with int(): those   *)
(*     truncations are modelled by FloatTimes100Int.                       *)
(*   - A call returns Ok(v) or Raise(e), e the name of the Python          *)
(*     exception that leaves the function.                                 *)
(***************************************************************************)
EXTENDS Integers, Sequences, FiniteSets, TLC

VARIABLES
    converter,  \* the PitchConverter in use: [a4, eighthnote_symbol]
    pc,         \* where the calling script stands
    arg,        \* the arguments of the call under way
    res         \* what the calls made so far returned

vars == <<converter, pc, arg, res>>

---------------------------------------------------------------------------
(* Python values and results *)

Ok(v) == [exc |-> "none", val |-> v]
Raise(e) == [exc |-> e]
IsOk(r) == r.exc = "none"

PyStr(s) == [type |-> "str", val |-> s]
PyFloat(x) == [type |-> "float", val |-> x]
PyNone == [type |-> "NoneType", val |-> 0]

isinstance_str(x) == x.type = "str"

Digits == <<"0", "1", "2", "3", "4", "5", "6", "7", "8", "9">>

isdecimal(c) == \E d \in 1..10 : Digits[d] = c

DigitVal(c) == (CHOOSE d \in 1..10 : Digits[d] = c) - 1

UpperCase == <<"A", "B", "C", "D", "E", "F", "G", "H", "I", "J", "K", "L", "M",
               "N", "O", "P", "Q", "R", "S", "T", "U", "V", "W", "X", "Y", "Z">>

LowerCase == <<"a", "b", "c", "d", "e", "f", "g", "h", "i", "j", "k", "l", "m",
               "n", "o", "p", "q", "r", "s", "t", "u", "v", "w", "x", "y", "z">>

isalpha(c) == \E i \in 1..26 : UpperCase[i] = c \/ LowerCase[i] = c

lower(c) ==
    IF \E i \in 1..26 : UpperCase[i] = c
    THEN LowerCase[CHOOSE i \in 1..26 : UpperCase[i] = c]
    ELSE c

upper(c) ==
    IF \E i \in 1..26 : LowerCase[i] = c
    THEN UpperCase[CHOOSE i \in 1..26 : LowerCase[i] = c]
    ELSE c

\* s[i:j] of Python, 0-based, i <= j <= len(s) + the clamping of slices
Slice(s, i, j) ==
    LET lo == IF i > Len(s) THEN Len(s) ELSE i
        hi == IF j > Len(s) THEN Len(s) ELSE j
    IN IF hi <= lo THEN <<>> ELSE SubSeq(s, lo + 1, hi)

\* seq[i] of Python for a tuple or list: 0-based, negative i counts from the end
PyIndex(seq, i) == IF i < 0 THEN seq[Len(seq) + i + 1] ELSE seq[i + 1]

RECURSIVE NatStr(_)
NatStr(n) ==
    IF n < 10 THEN <<Digits[n + 1]>>
    ELSE NatStr(n \div 10) \o <<Digits[(n % 10) + 1]>>

\* str(n) for an int
str(n) == IF n < 0 THEN <<"-">> \o NatStr(-n) ELSE NatStr(n)

RECURSIVE DigitsVal(_)
DigitsVal(s) ==
    IF Len(s) = 0 THEN 0
    ELSE DigitsVal(SubSeq(s, 1, Len(s) - 1)) * 10 + DigitVal(s[Len(s)])

AllDecimal(s) == Len(s) > 0 /\ \A i \in 1..Len(s) : isdecimal(s[i])

\* int(s) for a str: an optional sign and at least one digit, else ValueError
int(s) ==
    IF Len(s) > 0 /\ s[1] \in {"+", "-"}
    THEN IF AllDecimal(Tail(s))
         THEN Ok(IF s[1] = "-" THEN -DigitsVal(Tail(s)) ELSE DigitsVal(Tail(s)))
         ELSE Raise("ValueError")
    ELSE IF AllDecimal(s) THEN Ok(DigitsVal(s)) ELSE Raise("ValueError")

\* int(x * 100) for the float x = c / 100: the product falls just short of c
\* for these c, and int() truncates towards zero
\* (IEEE 754 doubles, |c| <= 250)
FloatLossyCents == {29, 57, 58, 113, 114, 115, 116,
                    201, 203, 205, 207, 226, 228, 230, 232}

FloatTimes100Int(c) ==
    IF c \in FloatLossyCents THEN c - 1
    ELSE IF (-c) \in FloatLossyCents THEN c + 1
    ELSE c

---------------------------------------------------------------------------
(* Tables *)

_flats == << <<"C">>, <<"D", "b">>, <<"D">>, <<"E", "b">>, <<"E">>, <<"F">>,
             <<"G", "b">>, <<"G">>, <<"A", "b">>, <<"A">>, <<"B", "b">>,
             <<"B">>, <<"C">> >>

_sharps == << <<"C">>, <<"C", "#">>, <<"D">>, <<"D", "#">>, <<"E">>, <<"F">>,
              <<"F", "#">>, <<"G">>, <<"G", "#">>, <<"A">>, <<"A", "#">>,
              <<"B">>, <<"C">> >>

_black_key_indexes == {1, 3, 6, 8, 10}

\* _notes2: KeyError for a letter it does not hold
_notes2(c) ==
    CASE c = "c" -> Ok(0)
      [] c = "d" -> Ok(2)
      [] c = "e" -> Ok(4)
      [] c = "f" -> Ok(5)
      [] c = "g" -> Ok(7)
      [] c = "a" -> Ok(9)
      [] c = "b" -> Ok(11)
      [] OTHER -> Raise("KeyError")

---------------------------------------------------------------------------
(* The two notename grammars _r1 and _r2, as re.search applies them *)

LetterAH == {"A", "B", "C", "D", "E", "F", "G", "H",
             "a", "b", "c", "d", "e", "f", "g", "h"}

\* the character class [b|#]
AltClass == {"b", "|", "#"}

\* the character class [-+><↓↑]
MicroClass == {"-", "+", ">", "<", "downarrow", "uparrow"}

NoMatch == [matched |-> FALSE]

RECURSIVE DigitsEnd(_, _)
\* the index after the longest run of digits of s that starts at i
DigitsEnd(s, i) ==
    IF i <= Len(s) /\ isdecimal(s[i]) THEN DigitsEnd(s, i + 1) ELSE i

\* [-]?\d+ at i: the index after the match, 0 when there is none
OctEnd(s, i) ==
    LET j == IF i <= Len(s) /\ s[i] = "-" THEN i + 1 ELSE i
        e == DigitsEnd(s, j)
    IN IF e > j THEN e ELSE 0

\* ([-+><↓↑]\d*)? at i: the index after the match (i when the group is absent)
MicroEnd(s, i) ==
    IF i <= Len(s) /\ s[i] \in MicroClass THEN DigitsEnd(s, i + 1) ELSE i

Groups(s, p0, p1, o0, o1) ==
    [matched |-> TRUE,
     pch |-> SubSeq(s, p0, p1 - 1),
     oct |-> SubSeq(s, o0, o1 - 1),
     micro |-> SubSeq(s, IF p1 > o1 THEN p1 ELSE o1,
                         MicroEnd(s, IF p1 > o1 THEN p1 ELSE o1) - 1)]

\* _r1 anchored at i: letter, optional alteration (tried first with it), octave
R1At(s, i) ==
    IF i > Len(s) \/ s[i] \notin LetterAH THEN NoMatch
    ELSE LET withAlt == IF i + 1 <= Len(s) /\ s[i + 1] \in AltClass
                        THEN OctEnd(s, i + 2) ELSE 0
             without == OctEnd(s, i + 1)
         IN IF withAlt > 0 THEN Groups(s, i, i + 2, i + 2, withAlt)
            ELSE IF without > 0 THEN Groups(s, i, i + 1, i + 1, without)
            ELSE NoMatch

\* _r2 anchored at i: octave, letter, optional alteration
R2At(s, i) ==
    LET e == OctEnd(s, i)
    IN IF e = 0 \/ e > Len(s) \/ s[e] \notin LetterAH THEN NoMatch
       ELSE IF e + 1 <= Len(s) /\ s[e + 1] \in AltClass
            THEN Groups(s, e, e + 2, i, e)
            ELSE Groups(s, e, e + 1, i, e)

\* pattern.search(s): the match at the leftmost position that has one
_r1_search(s) ==
    IF \E i \in 1..Len(s) : R1At(s, i).matched
    THEN R1At(s, CHOOSE i \in 1..Len(s) :
                    R1At(s, i).matched /\ \A j \in 1..(i - 1) : ~R1At(s, j).matched)
    ELSE NoMatch

_r2_search(s) ==
    IF \E i \in 1..Len(s) : R2At(s, i).matched
    THEN R2At(s, CHOOSE i \in 1..Len(s) :
                    R2At(s, i).matched /\ \A j \in 1..(i - 1) : ~R2At(s, j).matched)
    ELSE NoMatch

---------------------------------------------------------------------------
(* n2m *)

\* the micro suffix of a match, in cents
MicroCents(microstr) ==
    IF Len(microstr) = 0 THEN Ok(0)
    ELSE IF microstr = <<"+">> THEN Ok(50)
    ELSE IF microstr = <<"-">> THEN Ok(-50)
    ELSE IF microstr = <<">">> \/ microstr = <<"uparrow">> THEN Ok(25)
    ELSE IF microstr = <<"<">> \/ microstr = <<"downarrow">> THEN Ok(-25)
    ELSE int(microstr)

\* n2m after a successful match
n2m_groups(m) ==
    LET pc0 == _notes2(lower(m.pch[1]))
        alt == IF Len(m.pch) = 2 THEN m.pch[2] ELSE ""
        octave == int(m.oct).val
        micro == MicroCents(m.micro)
    IN IF ~IsOk(pc0) THEN pc0
       ELSE IF Len(m.pch) = 2 /\ alt \notin {"#", "b"} THEN Raise("ValueError")
       ELSE IF ~IsOk(micro) THEN micro
       ELSE LET pc1 == pc0.val + (IF alt = "#" THEN 1 ELSE IF alt = "b" THEN -1 ELSE 0)
                pc2 == IF pc1 > 11 THEN 0 ELSE IF pc1 < 0 THEN 12 + pc1 ELSE pc1
                oct2 == IF pc1 > 11 THEN octave + 1
                        ELSE IF pc1 < 0 THEN octave - 1 ELSE octave
            IN Ok(((oct2 + 1) * 12 + pc2) * 100 + micro.val)

n2m(note) ==
    IF ~isinstance_str(note) THEN Raise("TypeError")
    ELSE IF Len(note.val) = 0 THEN Raise("IndexError")
    ELSE LET m == IF isalpha(note.val[1]) THEN _r1_search(note.val)
                  ELSE _r2_search(note.val)
         IN IF ~m.matched THEN Raise("ValueError") ELSE n2m_groups(m)

---------------------------------------------------------------------------
(* PitchConverter *)

\* the default of a4 in PitchConverter.__init__
A4Default == 442

\* PitchConverter.__init__
PitchConverter(a4, eightnote_symbol) ==
    [a4 |-> a4, eighthnote_symbol |-> eightnote_symbol]

\* midi_to_note_parts without the octave carry when the pitch class passes B
midi_to_note_parts_no_carry(self, midinote) ==
    LET i == midinote \div 100
        octave == (midinote \div 1200) - 1
        ps == i % 12
        cents == midinote % 100
        ps1 == ps + 1
        octave1 == octave
    IN IF cents = 0 THEN <<octave, PyIndex(_sharps, ps), <<>>, 0>>
       ELSE IF cents = 50
       THEN IF ps \in {1, 3, 6, 8, 10}
            THEN <<octave, PyIndex(_sharps, ps + 1), <<"-">>, 0>>
            ELSE <<octave, PyIndex(_sharps, ps), <<"+">>, 0>>
       ELSE IF cents = 25 /\ self.eighthnote_symbol
       THEN IF ps \in {6, 10}
            THEN <<octave, PyIndex(_flats, ps), <<">">>, 0>>
            ELSE <<octave, PyIndex(_sharps, ps), <<">">>, 0>>
       ELSE IF cents = 75 /\ self.eighthnote_symbol
       THEN IF ps1 \in {1, 3, 6, 8, 10}
            THEN <<octave1, PyIndex(_flats, ps1), <<"<">>, 0>>
            ELSE <<octave1, PyIndex(_sharps, ps1), <<"<">>, 0>>
       ELSE IF cents > 50
       THEN <<octave1, PyIndex(_flats, ps1), <<>>, -(100 - cents)>>
       ELSE <<octave, PyIndex(_sharps, ps), <<>>, cents>>

\* PitchConverter.midi_to_note_parts, for midinote >= 0 on the 1-cent grid
midi_to_note_parts(self, midinote) ==
    LET i == midinote \div 100
        octave == (midinote \div 1200) - 1
        ps == i % 12
        cents == midinote % 100
        ps1 == ps + 1
        octave1 == IF ps1 > 11 THEN octave + 1 ELSE octave
    IN IF cents = 0 THEN <<octave, PyIndex(_sharps, ps), <<>>, 0>>
       ELSE IF cents = 50
       THEN IF ps \in {1, 3, 6, 8, 10}
            THEN <<octave, PyIndex(_sharps, ps + 1), <<"-">>, 0>>
            ELSE <<octave, PyIndex(_sharps, ps), <<"+">>, 0>>
       ELSE IF cents = 25 /\ self.eighthnote_symbol
       THEN IF ps \in {6, 10}
            THEN <<octave, PyIndex(_flats, ps), <<">">>, 0>>
            ELSE <<octave, PyIndex(_sharps, ps), <<">">>, 0>>
       ELSE IF cents = 75 /\ self.eighthnote_symbol
       THEN IF ps1 \in {1, 3, 6, 8, 10}
            THEN <<octave1, PyIndex(_flats, ps1), <<"<">>, 0>>
            ELSE <<octave1, PyIndex(_sharps, ps1), <<"<">>, 0>>
       ELSE IF cents > 50
       THEN <<octave1, PyIndex(_flats, ps1), <<>>, -(100 - cents)>>
       ELSE <<octave, PyIndex(_sharps, ps), <<>>, cents>>

\* an m2n that uses the eighth-tone symbols whatever the option says
m2n_symbols(self, midinote) ==
    LET parts == midi_to_note_parts(PitchConverter(self.a4, TRUE), midinote)
        octave == parts[1]
        chromatic_name == parts[2]
        alteration == parts[3]
        cents == parts[4]
        head == str(octave) \o chromatic_name \o alteration
    IN IF cents = 0 THEN head
       ELSE IF cents > 0
       THEN IF cents < 10 THEN head \o <<"+", "0">> \o str(cents)
            ELSE head \o <<"+">> \o str(cents)
       ELSE IF -10 < cents THEN head \o <<"-", "0">> \o str(-cents)
            ELSE head \o str(cents)

\* PitchConverter.m2n
m2n(self, midinote) ==
    LET parts == midi_to_note_parts(self, midinote)
        octave == parts[1]
        chromatic_name == parts[2]
        alteration == parts[3]
        cents == parts[4]
        head == str(octave) \o chromatic_name \o alteration
    IN IF cents = 0 THEN head
       ELSE IF cents > 0
       THEN IF cents < 10 THEN head \o <<"+", "0">> \o str(cents)
            ELSE head \o <<"+">> \o str(cents)
       ELSE IF -10 < cents THEN head \o <<"-", "0">> \o str(-cents)
            ELSE head \o str(cents)

---------------------------------------------------------------------------
(* split_notename *)

\* _centsrepr.get(alteration): Raise("KeyError") stands for None
_centsrepr(alteration) ==
    CASE alteration = <<"#", "+">> -> Ok(150)
      [] alteration = <<"#", ">">> -> Ok(125)
      [] alteration = <<"#">> -> Ok(100)
      [] alteration = <<"#", "<">> -> Ok(75)
      [] alteration = <<"+">> -> Ok(50)
      [] alteration = <<">">> -> Ok(25)
      [] alteration = <<>> -> Ok(0)
      [] alteration = <<"<">> -> Ok(-25)
      [] alteration = <<"-">> -> Ok(-50)
      [] alteration = <<"b", ">">> -> Ok(-75)
      [] alteration = <<"b">> -> Ok(-100)
      [] alteration = <<"b", "<">> -> Ok(-125)
      [] alteration = <<"b", "-">> -> Ok(-150)
      [] OTHER -> Raise("KeyError")

alteration_to_cents(alteration) ==
    IF IsOk(_centsrepr(alteration)) THEN _centsrepr(alteration)
    ELSE Raise("ValueError")

\* _parse_centstr: Raise("ValueError") stands for the None that split_notename
\* turns into a ValueError
_parse_centstr(centstr) ==
    IF Len(centstr) = 0 THEN Ok(0)
    ELSE IF IsOk(_centsrepr(centstr)) THEN _centsrepr(centstr)
    ELSE int(centstr)

NoteParts(octave, diatonic_name, alteration, cents_deviation) ==
    [octave |-> octave, diatonic_name |-> diatonic_name,
     alteration |-> alteration, cents_deviation |-> cents_deviation]

\* the branch of split_notename for a first character that is no digit ("C#4-10")
split_letter_first(notename, default_octave) ==
    IF Len(notename) < 2 THEN Raise("IndexError")
    ELSE LET letter == notename[1]
             l1 == notename[2]
             alter == IF l1 = "#" THEN <<"#">> ELSE IF l1 = "b" THEN <<"b">> ELSE <<>>
             cursor == IF l1 \in {"#", "b"} THEN 2 ELSE 1
         IN IF cursor >= Len(notename) THEN Raise("IndexError")
            ELSE LET octchar == notename[cursor + 1]
                     octave == IF isdecimal(octchar) THEN DigitVal(octchar)
                               ELSE default_octave
                     cursor2 == IF isdecimal(octchar) THEN cursor + 1 ELSE cursor
                     cents == _parse_centstr(Slice(notename, cursor2, Len(notename)))
                 IN IF ~IsOk(cents) THEN Raise("ValueError")
                    ELSE Ok(NoteParts(octave, upper(letter), alter, cents.val))

\* the branch of split_notename for a first character that is a digit ("4C#-10")
split_octave_first(notename) ==
    IF Len(notename) < 2 THEN Raise("IndexError")
    ELSE LET octave == DigitVal(notename[1])
             letter == notename[2]
             rest == Slice(notename, 2, Len(notename))
         IN IF Len(rest) = 0 THEN Ok(NoteParts(octave, upper(letter), <<>>, 0))
            ELSE LET r0 == rest[1]
                     alter == IF r0 = "b" THEN <<"b">>
                              ELSE IF r0 = "#" THEN <<"#">> ELSE <<>>
                     centstr == IF r0 \in {"b", "#"} THEN Tail(rest) ELSE rest
                     cents == _parse_centstr(centstr)
                 IN IF ~IsOk(cents) THEN Raise("ValueError")
                    ELSE Ok(NoteParts(octave, upper(letter), alter, cents.val))

\* split_notename(notename), default_octave = -1
split_notename(notename) ==
    IF Len(notename) = 0 THEN Raise("IndexError")
    ELSE IF ~isdecimal(notename[1]) THEN split_letter_first(notename, -1)
    ELSE split_octave_first(notename)

---------------------------------------------------------------------------
(* NotatedPitch *)

_pitchclass_chromatic(chromatic_note) ==
    CASE chromatic_note = <<"C">> -> Ok(0)
      [] chromatic_note = <<"C", "#">> -> Ok(1)
      [] chromatic_note = <<"D", "b">> -> Ok(1)
      [] chromatic_note = <<"D">> -> Ok(2)
      [] chromatic_note = <<"D", "#">> -> Ok(3)
      [] chromatic_note = <<"E", "b">> -> Ok(3)
      [] chromatic_note = <<"E">> -> Ok(4)
      [] chromatic_note = <<"E", "#">> -> Ok(5)
      [] chromatic_note = <<"F", "b">> -> Ok(4)
      [] chromatic_note = <<"F">> -> Ok(5)
      [] chromatic_note = <<"F", "#">> -> Ok(6)
      [] chromatic_note = <<"G", "b">> -> Ok(6)
      [] chromatic_note = <<"G">> -> Ok(7)
      [] chromatic_note = <<"G", "#">> -> Ok(8)
      [] chromatic_note = <<"A", "b">> -> Ok(8)
      [] chromatic_note = <<"A">> -> Ok(9)
      [] chromatic_note = <<"A", "#">> -> Ok(10)
      [] chromatic_note = <<"B", "b">> -> Ok(10)
      [] chromatic_note = <<"B">> -> Ok(11)
      [] chromatic_note = <<"B", "#">> -> Ok(0)
      [] chromatic_note = <<"C", "b">> -> Ok(11)
      [] OTHER -> Raise("KeyError")

\* 'CDEFGABC'.index(name): ValueError when name does not occur
DiatonicIndex(name) ==
    LET names == <<"C", "D", "E", "F", "G", "A", "B", "C">>
    IN IF \E i \in 1..8 : names[i] = name
       THEN Ok((CHOOSE i \in 1..8 : names[i] = name /\ \A j \in 1..(i - 1) : names[j] # name) - 1)
       ELSE Raise("ValueError")

_centsToAccidentalName(cents) ==
    CASE cents = 0 -> Ok("natural")
      [] cents = 25 -> Ok("natural-up")
      [] cents = 50 -> Ok("quarter-sharp")
      [] cents = 75 -> Ok("sharp-down")
      [] cents = 100 -> Ok("sharp")
      [] cents = 125 -> Ok("sharp-up")
      [] cents = 150 -> Ok("three-quarters-sharp")
      [] cents = -25 -> Ok("natural-down")
      [] cents = -50 -> Ok("quarter-flat")
      [] cents = -75 -> Ok("flat-up")
      [] cents = -100 -> Ok("flat")
      [] cents = -125 -> Ok("flat-down")
      [] cents = -150 -> Ok("three-quarters-flat")
      [] OTHER -> Raise("KeyError")

\* round(x / d) for integers x and d > 0: to the nearest, a tie to the even one
RoundDiv(x, d) ==
    LET q == x \div d
        r == x % d
    IN IF 2 * r < d THEN q
       ELSE IF 2 * r > d THEN q + 1
       ELSE IF q % 2 = 0 THEN q ELSE q + 1

\* accidental_name(alteration_cents), semitone_divisions = 4
accidental_name(alteration_cents) ==
    LET centsResolution == 100 \div 4
    IN _centsToAccidentalName(RoundDiv(alteration_cents, centsResolution) * centsResolution)

\* the NotatedPitch that _notated_pitch_notename builds from the parts of a
\* notename; the two alterations of a NotatedPitch are in cents
NotatedPitch(parts) ==
    LET diatonic_index == DiatonicIndex(parts.diatonic_name)
        chromatic_note == <<parts.diatonic_name>> \o parts.alteration
        cents == parts.cents_deviation
        altcents == alteration_to_cents(parts.alteration)
        chromatic_index == _pitchclass_chromatic(chromatic_note)
        accidental == accidental_name(FloatTimes100Int(altcents.val + cents))
    IN IF ~IsOk(diatonic_index) THEN diatonic_index
       ELSE IF ~IsOk(chromatic_index) THEN chromatic_index
       ELSE IF ~IsOk(accidental) THEN accidental
       ELSE Ok([octave |-> parts.octave,
                diatonic_index |-> diatonic_index.val,
                diatonic_name |-> parts.diatonic_name,
                chromatic_index |-> chromatic_index.val,
                chromatic_name |-> chromatic_note,
                diatonic_alteration |-> altcents.val + cents,
                chromatic_alteration |-> cents,
                accidental_name |-> accidental.val])

\* _notated_pitch_notename
_notated_pitch_notename(notename) ==
    LET parts == split_notename(notename)
    IN IF ~IsOk(parts) THEN parts ELSE NotatedPitch(parts.val)

\* notated_pitch(pitch) for a notename
notated_pitch(pitch) == _notated_pitch_notename(pitch)

\* NotatedPitch.midinote
NotatedPitch_midinote(self) ==
    ((self.octave + 1) * 12 + self.chromatic_index) * 100 + self.chromatic_alteration

\* NotatedPitch.microtone_index(semitone_divisions), midinote >= 0
microtone_index(self, semitone_divisions) ==
    RoundDiv(NotatedPitch_midinote(self) * semitone_divisions, 100) % (12 * semitone_divisions)

\* NotatedPitch.cents_deviation
cents_deviation(self) == FloatTimes100Int(self.chromatic_alteration)

\* NotatedPitch.cents_str
cents_str(self) ==
    LET cents == cents_deviation(self)
    IN IF cents = 0 THEN <<>>
       ELSE IF cents = 50 THEN <<"+">>
       ELSE IF cents = -50 THEN <<"-">>
       ELSE IF cents > 0 THEN <<"+">> \o str(cents)
       ELSE str(cents)

\* NotatedPitch.alteration_direction(), min_alteration = 0.5
alteration_direction(self) ==
    IF self.diatonic_alteration >= 50 THEN 1
    ELSE IF self.diatonic_alteration <= -50 THEN -1
    ELSE 0

\* cents_repr(cents), eighthToneShortcuts = True: the shortcut '' of 0 is falsy
cents_repr(cents) ==
    CASE cents = 25 -> <<">">>
      [] cents = 50 -> <<"+">>
      [] cents = -25 -> <<"<">>
      [] cents = -50 -> <<"-">>
      [] OTHER -> IF cents > 0 THEN <<"+">> \o str(cents) ELSE str(cents)

---------------------------------------------------------------------------
(* enharmonic *)

Abs(x) == IF x < 0 THEN -x ELSE x

\* the branch |diatonic_alteration| < 1
enharmonic_natural(notename, p) ==
    IF Abs(cents_deviation(p)) < 50 THEN notename
    ELSE IF cents_deviation(p) >= 50
    THEN LET chrom == PyIndex(_flats, p.chromatic_index + 1)
             octave == IF p.chromatic_name # <<"B">> THEN p.octave ELSE p.octave + 1
         IN str(octave) \o chrom \o cents_repr(cents_deviation(p) - 100)
    ELSE LET chrom == PyIndex(_sharps, (p.chromatic_index - 1) % 12)
             octave == IF p.chromatic_name # <<"C">> THEN p.octave ELSE p.octave - 1
         IN str(octave) \o chrom \o cents_repr(100 + cents_deviation(p))

\* the branch diatonic_alteration >= 1
enharmonic_sharp(notename, p) ==
    IF Abs(cents_deviation(p)) < 50
    THEN Ok(str(p.octave) \o PyIndex(_flats, p.chromatic_index) \o cents_str(p))
    ELSE IF 50 <= cents_deviation(p) /\ cents_deviation(p) < 100
    THEN Ok(str(p.octave) \o PyIndex(_flats, p.chromatic_index + 1)
            \o cents_repr(cents_deviation(p) - 100))
    ELSE IF -100 < cents_deviation(p) /\ cents_deviation(p) < 50
    THEN Ok(str(p.octave) \o PyIndex(_flats, (p.chromatic_index - 1) % 12)
            \o cents_repr(100 + cents_deviation(p)))
    ELSE Raise("ValueError")

\* the branch diatonic_alteration <= -1
enharmonic_flat(notename, p) ==
    IF Abs(cents_deviation(p)) < 50
    THEN Ok(str(p.octave) \o PyIndex(_sharps, p.chromatic_index) \o cents_str(p))
    ELSE IF 50 <= cents_deviation(p) /\ cents_deviation(p) < 100
    THEN Ok(str(p.octave) \o PyIndex(_sharps, p.chromatic_index - 1)
            \o cents_repr(cents_deviation(p) - 100))
    ELSE IF -100 < cents_deviation(p)
    THEN Ok(str(p.octave) \o PyIndex(_sharps, p.chromatic_index - 1)
            \o cents_repr(100 + cents_deviation(p)))
    ELSE Raise("ValueError")

\* enharmonic after p = notated_pitch(notename)
enharmonic_notated(notename, p) ==
    IF Abs(p.diatonic_alteration) < 100 THEN Ok(enharmonic_natural(notename, p))
    ELSE IF p.diatonic_alteration >= 100 THEN enharmonic_sharp(notename, p)
    ELSE enharmonic_flat(notename, p)

enharmonic(notename) ==
    LET r == notated_pitch(notename)
    IN IF ~IsOk(r) THEN r ELSE enharmonic_notated(notename, r.val)


---------------------------------------------------------------------------
(* The module-level functions bound to the default converter *)

\* m2n = _converter.m2n
_converter_m2n(midinote) == m2n(converter, midinote)

\* normalize_notename = _converter.normalize_notename; n2m(notename) >= 0
normalize_notename(notename) ==
    LET m == n2m(PyStr(notename))
    IN IF ~IsOk(m) THEN m ELSE Ok(_converter_m2n(m.val))

PyInt(n) == [type |-> "int", val |-> n]

\* construct_notename(octave, letter, alter, cents), normalize = False
construct_notename(octave, letter, alter, cents) ==
    LET alterstr == IF isinstance_str(alter) THEN alter.val
                    ELSE IF alter.val = 1 THEN <<"#">>
                    ELSE IF alter.val = -1 THEN <<"b">> ELSE <<>>
        centsstr == IF cents = 50 THEN <<"+">>
                    ELSE IF cents = -50 THEN <<"-">>
                    ELSE IF cents > 0 THEN <<"+">> \o str(cents)
                    ELSE IF cents < 0 THEN str(cents) ELSE <<>>
    IN str(octave) \o <<upper(letter)>> \o alterstr \o centsstr

---------------------------------------------------------------------------
(* transpose *)

\* a table that spells every root's transpositions as m2n does, with sharps
_chromatic_transpositions_sharps(chromatic1) ==
    LET root == _pitchclass_chromatic(chromatic1)
    IN IF ~IsOk(root) THEN Raise("TypeError")
       ELSE Ok([i \in 1..13 |-> IF i \in {1, 13} THEN chromatic1
                                ELSE _sharps[((root.val + i - 1) % 12) + 1]])

\* _chromatic_transpositions.get(chromatic1): Raise("TypeError") stands for the
\* None that transpose subscripts
_chromatic_transpositions(chromatic1) ==
    CASE chromatic1 = <<"C">> ->
           Ok(<< <<"C">>, <<"D", "b">>, <<"D">>, <<"E", "b">>, <<"E">>, <<"F">>, <<"F", "#">>, <<"G">>, <<"A", "b">>, <<"A">>, <<"B", "b">>, <<"B">>, <<"C">> >>)
      [] chromatic1 = <<"C", "#">> ->
           Ok(<< <<"C", "#">>, <<"D">>, <<"D", "#">>, <<"E">>, <<"E", "#">>, <<"F", "#">>, <<"G">>, <<"G", "#">>, <<"A">>, <<"A", "#">>, <<"B">>, <<"C">>, <<"C", "#">> >>)
      [] chromatic1 = <<"D", "b">> ->
           Ok(<< <<"D", "b">>, <<"D">>, <<"E", "b">>, <<"E">>, <<"F">>, <<"G", "b">>, <<"G">>, <<"A", "b">>, <<"A">>, <<"B", "b">>, <<"B">>, <<"C">>, <<"D", "b">> >>)
      [] chromatic1 = <<"D">> ->
           Ok(<< <<"D">>, <<"E", "b">>, <<"E">>, <<"F">>, <<"F", "#">>, <<"G">>, <<"G", "#">>, <<"A">>, <<"B", "b">>, <<"B">>, <<"C">>, <<"C", "#">>, <<"D">> >>)
      [] chromatic1 = <<"D", "#">> ->
           Ok(<< <<"D", "#">>, <<"E">>, <<"F">>, <<"F", "#">>, <<"G">>, <<"G", "#">>, <<"A">>, <<"A", "#">>, <<"B">>, <<"C">>, <<"C", "#">>, <<"D">>, <<"D", "#">> >>)
      [] chromatic1 = <<"E", "b">> ->
           Ok(<< <<"E", "b">>, <<"E">>, <<"F">>, <<"G", "b">>, <<"G">>, <<"A", "b">>, <<"A">>, <<"B", "b">>, <<"B">>, <<"C">>, <<"D", "b">>, <<"D">>, <<"E", "b">> >>)
      [] chromatic1 = <<"E">> ->
           Ok(<< <<"E">>, <<"F">>, <<"F", "#">>, <<"G">>, <<"G", "#">>, <<"A">>, <<"B", "b">>, <<"B">>, <<"C">>, <<"C", "#">>, <<"D">>, <<"D", "#">>, <<"E">> >>)
      [] chromatic1 = <<"F">> ->
           Ok(<< <<"F">>, <<"F", "#">>, <<"G">>, <<"A", "b">>, <<"A">>, <<"B", "b">>, <<"B">>, <<"C">>, <<"D", "b">>, <<"D">>, <<"E", "b">>, <<"E">>, <<"F">> >>)
      [] chromatic1 = <<"F", "#">> ->
           Ok(<< <<"F", "#">>, <<"G">>, <<"G", "#">>, <<"A">>, <<"A", "#">>, <<"B">>, <<"C">>, <<"C", "#">>, <<"D">>, <<"D", "#">>, <<"E">>, <<"F">>, <<"F", "#">> >>)
      [] chromatic1 = <<"G", "b">> ->
           Ok(<< <<"G", "b">>, <<"G">>, <<"A", "b">>, <<"A">>, <<"B", "b">>, <<"B">>, <<"C">>, <<"D", "b">>, <<"D">>, <<"E", "b">>, <<"E">>, <<"F">>, <<"G", "b">> >>)
      [] chromatic1 = <<"G">> ->
           Ok(<< <<"G">>, <<"A", "b">>, <<"A">>, <<"B", "b">>, <<"B">>, <<"C">>, <<"C", "#">>, <<"D">>, <<"E", "b">>, <<"E">>, <<"F">>, <<"F", "#">>, <<"G">> >>)
      [] chromatic1 = <<"G", "#">> ->
           Ok(<< <<"G", "#">>, <<"A">>, <<"A", "#">>, <<"B">>, <<"C">>, <<"C", "#">>, <<"D">>, <<"D", "#">>, <<"E">>, <<"F">>, <<"F", "#">>, <<"G">>, <<"G", "#">> >>)
      [] chromatic1 = <<"A", "b">> ->
           Ok(<< <<"A", "b">>, <<"A">>, <<"B", "b">>, <<"B">>, <<"C">>, <<"D", "b">>, <<"D">>, <<"E", "b">>, <<"E">>, <<"F">>, <<"G", "b">>, <<"G">>, <<"A", "b">> >>)
      [] chromatic1 = <<"A">> ->
           Ok(<< <<"A">>, <<"B", "b">>, <<"B">>, <<"C">>, <<"C", "#">>, <<"D">>, <<"D", "#">>, <<"E">>, <<"F">>, <<"F", "#">>, <<"G">>, <<"G", "#">>, <<"A">> >>)
      [] chromatic1 = <<"A", "#">> ->
           Ok(<< <<"A", "#">>, <<"B">>, <<"C">>, <<"C", "#">>, <<"D">>, <<"D", "#">>, <<"E">>, <<"F">>, <<"F", "#">>, <<"G">>, <<"G", "#">>, <<"A">>, <<"A", "#">> >>)
      [] chromatic1 = <<"B", "b">> ->
           Ok(<< <<"B", "b">>, <<"B">>, <<"C">>, <<"D", "b">>, <<"D">>, <<"E", "b">>, <<"E">>, <<"F">>, <<"G", "b">>, <<"G">>, <<"A", "b">>, <<"A">>, <<"B", "b">> >>)
      [] chromatic1 = <<"B">> ->
           Ok(<< <<"B">>, <<"C">>, <<"C", "#">>, <<"D">>, <<"D", "#">>, <<"E">>, <<"F">>, <<"F", "#">>, <<"G">>, <<"G", "#">>, <<"A">>, <<"A", "#">>, <<"B">> >>)
      [] OTHER -> Raise("TypeError")

\* the spelling when white_enharmonic is True: nothing is replaced
white_key_spelling_kept(letter, alter, octave) == <<letter, alter, octave>>

\* the rewriting of E#, Fb, B#, Cb when white_enharmonic is False:
\* <<letter, alter, octave>>
white_key_spelling(letter, alter, octave) ==
    LET alter_is(a) == isinstance_str(alter) /\ alter.val = a
    IN IF letter = "E" /\ alter_is(<<"#">>) THEN <<"F", PyStr(<<>>), octave>>
       ELSE IF letter = "F" /\ alter_is(<<"b">>) THEN <<"E", PyStr(<<>>), octave>>
       ELSE IF letter = "B" /\ alter_is(<<"#">>) THEN <<"C", PyStr(<<>>), octave + 1>>
       ELSE IF letter = "C" /\ alter_is(<<"b">>) THEN <<"B", PyStr(<<>>), octave - 1>>
       ELSE <<letter, alter, octave>>

\* the octave of the result: the octave of m2n(midi2), moved one step when the
\* new spelling in that octave lies on the wrong side of the original note
transpose_octave(octave, chromatic2, midi1, interval) ==
    LET diff == n2m(PyStr(str(octave) \o chromatic2)).val - midi1
    IN IF diff < 0 /\ interval > 0 THEN octave + 1
       ELSE IF diff > 0 /\ interval < 0 THEN octave - 1
       ELSE octave

\* the end of transpose: the spelling is put together and normalized when the
\* cents leave -50..50
transpose_construct(octave, chromatic2, deviationcents, white_enharmonic) ==
    LET letter == chromatic2[1]
        alter == IF Len(chromatic2) = 2 THEN PyStr(<<chromatic2[2]>>) ELSE PyInt(0)
        spelled == IF white_enharmonic THEN <<letter, alter, octave>>
                   ELSE white_key_spelling(letter, alter, octave)
        out == construct_notename(spelled[3], spelled[1], spelled[2], deviationcents)
    IN IF deviationcents < -50 \/ deviationcents > 50
       THEN normalize_notename(out)
       ELSE Ok(out)

\* transpose once midi1, the octave of m2n(midi2) and parts1 are known
transpose_parts(midi1, octave, parts1, interval, white_enharmonic) ==
    LET chromatic1 == <<parts1.diatonic_name>> \o parts1.alteration
        rounded_interval == RoundDiv(interval, 100)
        deviation == interval - rounded_interval * 100
        deviationcents == deviation + parts1.cents_deviation
        row == _chromatic_transpositions(chromatic1)
        chromatic2 == PyIndex(row.val, rounded_interval % 12)
    IN IF ~IsOk(row) THEN row
       ELSE transpose_construct(transpose_octave(octave, chromatic2, midi1, interval),
                                chromatic2, deviationcents, white_enharmonic)

\* transpose(notename, interval, white_enharmonic); interval is in cents,
\* n2m(notename) + interval >= 0
transpose(notename, interval, white_enharmonic) ==
    LET midi1 == n2m(PyStr(notename))
        midi2 == midi1.val + interval
        split2 == split_notename(_converter_m2n(midi2))
        parts1 == split_notename(notename)
    IN IF ~IsOk(midi1) THEN midi1
       ELSE IF ~IsOk(split2) THEN split2
       ELSE IF ~IsOk(parts1) THEN parts1
       ELSE transpose_parts(midi1.val, split2.val.octave, parts1.val, interval,
                            white_enharmonic)

---------------------------------------------------------------------------
(* Notenames a caller may pass: octave-first, one digit of octave, a letter
   A-G, at most one alteration, and no suffix, a symbol or signed cents *)

MaxCents == 120

\* the midinotes a caller may pass are those of notes 0 to MaxMidi, in cents
MaxMidi == 127

InputOctaves == {0, 4, 9}

InputLetters == {"C", "D", "E", "F", "G", "A", "B"}

InputAlterations == {<<>>, <<"#">>, <<"b">>}

SignedCents(c) == IF c > 0 THEN <<"+">> \o str(c) ELSE str(c)

InputSuffixes ==
    {<<>>, <<"+">>, <<"-">>, <<">">>, <<"<">>}
    \cup {SignedCents(c) : c \in (-MaxCents..MaxCents) \ {0}}

InputNotenames ==
    {str(o) \o <<l>> \o a \o x :
        o \in InputOctaves, l \in InputLetters, a \in InputAlterations,
        x \in InputSuffixes}

---------------------------------------------------------------------------
(* A script calls enharmonic or notated_pitch on one notename *)

NotCalled == Raise("NotCalled")

InitEnharmonic ==
    /\ converter = PitchConverter(A4Default, TRUE)
    /\ pc = "start"
    /\ arg \in [notename : InputNotenames]
    /\ res = [enharmonic |-> NotCalled, notated |-> NotCalled]

CallEnharmonic ==
    /\ pc = "start"
    /\ res' = [res EXCEPT !.enharmonic = enharmonic(arg.notename)]
    /\ pc' = "enharmonic"
    /\ UNCHANGED <<converter, arg>>

CallNotatedPitch ==
    /\ pc = "start"
    /\ res' = [res EXCEPT !.notated = notated_pitch(arg.notename)]
    /\ pc' = "notated"
    /\ UNCHANGED <<converter, arg>>

NextEnharmonic == CallEnharmonic \/ CallNotatedPitch

SpecEnharmonic == InitEnharmonic /\ [][NextEnharmonic]_vars

\* C2: for every notename x that n2m accepts, enharmonic(x) returns a
\* notename and n2m(enharmonic(x)) = n2m(x).
C2_EnharmonicPreservesPitch ==
    pc = "enharmonic" =>
        /\ IsOk(n2m(PyStr(arg.notename)))
        /\ IsOk(res.enharmonic)
        /\ n2m(PyStr(res.enharmonic.val)) = n2m(PyStr(arg.notename))

\* C4: for every notename with letter A-G, one alteration at most and any
\* cents, notated_pitch(n).midinote equals n2m(n).
C4_NotatedMidinote ==
    pc = "notated" =>
        /\ IsOk(res.notated)
        /\ Ok(NotatedPitch_midinote(res.notated.val)) = n2m(PyStr(arg.notename))


---------------------------------------------------------------------------
(* A script transposes one notename by a whole number of semitones *)

MaxInterval == 24

\* the root spellings of _chromatic_transpositions
TransposeRoots ==
    {<<l>> \o a : l \in InputLetters, a \in InputAlterations}
    \ {<<"E", "#">>, <<"F", "b">>, <<"B", "#">>, <<"C", "b">>}

TransposeOctaves == {1, 4, 8}

TransposeSuffixes ==
    {<<>>, <<"+">>, <<"-">>, <<">">>, <<"<">>, <<"+", "3", "0">>, <<"-", "7", "0">>}

InitTranspose ==
    /\ converter = PitchConverter(A4Default, TRUE)
    /\ pc = "start"
    /\ arg \in [notename : {str(o) \o r \o x : o \in TransposeOctaves,
                              r \in TransposeRoots, x \in TransposeSuffixes},
                interval : -MaxInterval..MaxInterval,
                white_enharmonic : BOOLEAN]
    /\ res = NotCalled

CallTranspose ==
    /\ pc = "start"
    /\ res' = transpose(arg.notename, arg.interval * 100, arg.white_enharmonic)
    /\ pc' = "transposed"
    /\ UNCHANGED <<converter, arg>>

NextTranspose == CallTranspose

SpecTranspose == InitTranspose /\ [][NextTranspose]_vars

\* C3: for every notename n whose root is in the transposition table, with
\* any cents suffix, and every integer interval k of -24..24,
\* n2m(transpose(n, k)) = n2m(n) + k.
C3_TransposeSounds ==
    (pc = "transposed" /\ arg.white_enharmonic) =>
        /\ IsOk(res)
        /\ n2m(PyStr(res.val)) = Ok(n2m(PyStr(arg.notename)).val + arg.interval * 100)

FlatRoots == {<<"D", "b">>, <<"E", "b">>, <<"G", "b">>, <<"A", "b">>, <<"B", "b">>}

SharpRoots == {<<"C", "#">>, <<"D", "#">>, <<"F", "#">>, <<"G", "#">>, <<"A", "#">>}

RootIn(roots) == arg.notename \in {str(o) \o r : o \in TransposeOctaves, r \in roots}

Contains(s, c) == \E i \in 1..Len(s) : s[i] = c

WhiteKeyAlterations ==
    { <<"E", "#">>, <<"F", "b">>, <<"B", "#">>, <<"C", "b">> }

HasSpelling(s, sp) == \E i \in 1..(Len(s) - 1) : <<s[i], s[i + 1]>> = sp

\* C19: with white_enharmonic=False the result never spells E#, Fb, B# or Cb
\* and denotes the midinote of the result with white_enharmonic=True.
C19_WhiteKeysReplaced ==
    (pc = "transposed" /\ ~arg.white_enharmonic /\ IsOk(res)) =>
        /\ \A sp \in WhiteKeyAlterations : ~HasSpelling(res.val, sp)
        /\ LET kept == transpose(arg.notename, arg.interval * 100, TRUE)
           IN /\ IsOk(kept)
              /\ n2m(PyStr(res.val)) = n2m(PyStr(kept.val))
              /\ IsOk(n2m(PyStr(res.val)))

\* transpose('4C#', 4, white_enharmonic=False) is '4F', where the table gives E#
C19_Witness ==
    /\ pc = "transposed"
    /\ ~arg.white_enharmonic
    /\ arg.notename = <<"4", "C", "#">> /\ arg.interval = 4
    /\ res = Ok(<<"4", "F">>)
    /\ transpose(arg.notename, arg.interval * 100, TRUE) = Ok(<<"4", "E", "#">>)


---------------------------------------------------------------------------
(* The spelling enharmonic returns, and the inputs it fails for
   (properties of the script that calls enharmonic on one notename) *)

Accidentals(s) == {i \in 1..Len(s) : s[i] \in {"#", "b"}}

\* C17: the notename enharmonic returns has at most one '#' or 'b' and never
\* spells E#, Fb, B# or Cb, also when it is the input returned unchanged.
C17_NoWhiteKeyAlteration ==
    (pc = "enharmonic" /\ IsOk(res.enharmonic)) =>
        /\ Cardinality(Accidentals(res.enharmonic.val)) <= 1
        /\ \A sp \in WhiteKeyAlterations : ~HasSpelling(res.enharmonic.val, sp)

\* the cents deviation written in the notename
InputCents == split_notename(arg.notename).val.cents_deviation

\* C18: enharmonic returns without error for every valid notename whose
\* cents deviation lies inside (-150, 150), whatever its alteration.
C18_ReturnsInsideRange ==
    (pc = "enharmonic" /\ IsOk(n2m(PyStr(arg.notename)))
        /\ InputCents > -150 /\ InputCents < 150)
    => IsOk(res.enharmonic)

\* what fails inside the range fails with ValueError or with the KeyError of
\* accidental_name
C18_FailuresInsideRange ==
    (pc = "enharmonic" /\ ~IsOk(res.enharmonic)) =>
        res.enharmonic.exc \in {"ValueError", "KeyError"}


\* the parts of the notename given and of the notename returned
InputParts == split_notename(arg.notename).val

ResultParts == split_notename(res.enharmonic.val).val

InputRoot == <<InputParts.diatonic_name>> \o InputParts.alteration

\* the result is spelled name in the octave of the input, with cents c
SpelledAs(name, c) ==
    /\ IsOk(res.enharmonic)
    /\ IsOk(split_notename(res.enharmonic.val))
    /\ <<ResultParts.diatonic_name>> \o ResultParts.alteration = name
    /\ ResultParts.cents_deviation = c
    /\ ResultParts.octave = InputParts.octave

\* what the statement gives for a sharp-spelled root of pitch class ci
SharpToFlat(ci, c) ==
    IF c >= 50 THEN SpelledAs(PyIndex(_flats, ci + 1), c - 100)
    ELSE IF c >= -50 THEN SpelledAs(PyIndex(_flats, ci), c)
    ELSE SpelledAs(PyIndex(_flats, ci - 1), c + 100)

\* and, mirrored, for a flat-spelled root
FlatToSharp(ci, c) ==
    IF c <= -50 THEN SpelledAs(PyIndex(_sharps, ci - 1), c + 100)
    ELSE IF c <= 50 THEN SpelledAs(PyIndex(_sharps, ci), c)
    ELSE SpelledAs(PyIndex(_sharps, ci + 1), c - 100)

\* C24: for a sharp-spelled notename with cents c, enharmonic returns the
\* flat name of the same pitch class with cents c when c is in [-50, 50),
\* of the next pitch class with c-100 when c is in [50, 100), of the previous
\* one with c+100 when c is in (-100, -50); flat-spelled notenames mirrored.
C24_BlackKeyBands ==
    (pc = "enharmonic" /\ InputCents > -100 /\ InputCents < 100) =>
        /\ InputRoot \in SharpRoots
              => SharpToFlat(_pitchclass_chromatic(InputRoot).val, InputCents)
        /\ InputRoot \in FlatRoots
              => FlatToSharp(_pitchclass_chromatic(InputRoot).val, InputCents)

\* what holds: the band of the same pitch class on the side of the
\* alteration, for cents that the float product x * 100 keeps
C24_SamePitchClassBand ==
    pc = "enharmonic" =>
        /\ (InputRoot \in SharpRoots /\ InputCents >= 0 /\ InputCents < 50
                /\ InputCents \notin FloatLossyCents)
              => SharpToFlat(_pitchclass_chromatic(InputRoot).val, InputCents)
        /\ (InputRoot \in FlatRoots /\ InputCents <= 0 /\ InputCents > -50
                /\ -InputCents \notin FloatLossyCents)
              => FlatToSharp(_pitchclass_chromatic(InputRoot).val, InputCents)

\* what the statement gives for a natural of pitch class ci in octave
\* octave; the cents are written as cents_repr writes them
NaturalBands(octave, ci, c) ==
    IF Abs(c) < 50 THEN res.enharmonic = Ok(arg.notename)
    ELSE IF c >= 50
    THEN res.enharmonic =
            Ok(str(IF ci = 11 THEN octave + 1 ELSE octave)
               \o PyIndex(_flats, (ci + 1) % 12) \o cents_repr(c - 100))
    ELSE res.enharmonic =
            Ok(str(IF ci = 0 THEN octave - 1 ELSE octave)
               \o PyIndex(_sharps, (ci + 11) % 12) \o cents_repr(c + 100))

\* C25: for a natural-spelled notename with cents c in (-100, 100), enharmonic
\* returns the input when |c| < 50, the flat-table name of the next pitch
\* class with c-100 when c >= 50 (the octave above when crossing from B to
\* C), and the sharp-table name of the previous pitch class with c+100 when
\* c <= -50 (the octave below when crossing from C to B).
C25_NaturalBands ==
    (pc = "enharmonic" /\ InputParts.alteration = <<>>
        /\ InputCents > -100 /\ InputCents < 100)
    => NaturalBands(InputParts.octave, _pitchclass_chromatic(InputRoot).val, InputCents)

\* what holds: the bands, for cents that the float product x * 100 keeps
C25_NaturalBandsExact ==
    (pc = "enharmonic" /\ InputParts.alteration = <<>>
        /\ InputCents > -100 /\ InputCents < 100
        /\ Abs(InputCents) \notin FloatLossyCents)
    => NaturalBands(InputParts.octave, _pitchclass_chromatic(InputRoot).val, InputCents)


---------------------------------------------------------------------------
(* enharmonic_variations *)

non_enharmonic_slots == {0, 4, 8, 10, 14, 18, 22}

\* C#/Db in two octaves, the quarter tone above C, a deviation short of it
\* (slot 1, direction 0), and a white key
NotePool ==
    {<<"4", "C", "#">>, <<"5", "D", "b">>, <<"4", "C", "+">>,
     <<"4", "C", "+", "3", "0">>, <<"4", "D">>}

\* a value computed once for the keys of table, and afresh for any other key
Cached(table, key, fresh) == IF key \in DOMAIN table THEN table[key] ELSE fresh

\* enharmonic(n) of the notes of the pool, evaluated once
PoolEnharmonic == [n \in NotePool |-> enharmonic(n)]

variant_of(n) == Cached(PoolEnharmonic, n, enharmonic(n))

\* what the walk reads of notated_pitch(notename)
StepOf(notated) ==
    [notated |-> notated,
     slotindex |-> IF IsOk(notated) THEN microtone_index(notated.val, 2) ELSE 0,
     dir |-> IF IsOk(notated) THEN alteration_direction(notated.val) ELSE 0]

notated_step(notename) == StepOf(notated_pitch(notename))

\* the spellings a walk over notes of the pool meets
Spellings(variants) ==
    NotePool \cup {variants[n].val : n \in {m \in NotePool : IsOk(variants[m])}}

\* notated_step of these spellings, evaluated once
PoolNotated == [n \in Spellings(PoolEnharmonic) |-> notated_step(n)]

walk_step(notename) == Cached(PoolNotated, notename, notated_step(notename))

\* the j-th element (from 0) of itertools.product(*[(0, 1)] * n), as a tuple:
\* the last position varies fastest
RECURSIVE ProductRow(_, _)
ProductRow(n, j) ==
    IF n = 0 THEN <<>> ELSE Append(ProductRow(n - 1, j \div 2), j % 2)

RECURSIVE Pow2(_)
Pow2(n) == IF n = 0 THEN 1 ELSE 2 * Pow2(n - 1)

\* rowslots[slotindex] = direction on a dict
SetSlot(rowslots, slotindex, direction) ==
    [k \in (DOMAIN rowslots) \cup {slotindex} |->
        IF k = slotindex THEN direction ELSE rowslots[k]]

\* a walk that takes every spelling, whatever the slot holds
slot_accepts_any(rowslots, slotindex, dir) == TRUE

\* fixed_dir is None or fixed_dir == 0 or fixed_dir == alteration_direction()
slot_accepts(rowslots, slotindex, dir) ==
    \/ slotindex \notin DOMAIN rowslots
    \/ rowslots[slotindex] = 0
    \/ rowslots[slotindex] = dir

\* the inner loop over zip(indexes, variants_per_note) from position i on:
\* Ok(row) when the loop ends (by exhaustion or by break), Raise when
\* notated_pitch raises
RECURSIVE WalkRow(_, _, _, _, _)
RECURSIVE WalkNote(_, _, _, _, _, _, _)
WalkNote(variants_per_note, indexes, i, row, rowslots, notename, step) ==
    IF ~IsOk(step.notated) THEN step.notated
    ELSE IF step.slotindex \in non_enharmonic_slots
    THEN WalkRow(variants_per_note, indexes, i + 1, Append(row, notename), rowslots)
    ELSE IF slot_accepts(rowslots, step.slotindex, step.dir)
    THEN WalkRow(variants_per_note, indexes, i + 1, Append(row, notename),
                 SetSlot(rowslots, step.slotindex, step.dir))
    ELSE Ok(row)

WalkRow(variants_per_note, indexes, i, row, rowslots) ==
    IF i > Len(variants_per_note) THEN Ok(row)
    ELSE WalkNote(variants_per_note, indexes, i, row, rowslots,
                  PyIndex(variants_per_note[i], indexes[i]),
                  walk_step(PyIndex(variants_per_note[i], indexes[i])))

\* a collection that keeps every row, abandoned or not
FullRows_keep_partial(rows, j, n) == [k \in DOMAIN rows |-> rows[k].val]

\* the list allvariants after the loop over the product, in the order of the
\* product: the rows whose walk reached the last note
RECURSIVE FullRows(_, _, _)
FullRows(rows, j, n) ==
    IF j > Len(rows) THEN <<>>
    ELSE IF Len(rows[j].val) = n THEN <<rows[j].val>> \o FullRows(rows, j + 1, n)
    ELSE FullRows(rows, j + 1, n)

\* the first exception of a sequence of outcomes
FirstRaise(outcomes) ==
    outcomes[CHOOSE i \in DOMAIN outcomes :
                ~IsOk(outcomes[i]) /\ \A k \in 1..(i - 1) : IsOk(outcomes[k])]

\* the empty dict
EmptyDict == [k \in {} |-> 0]

\* a walk that starts from no fixed slot at all
rowslots_empty(fixedslots) == EmptyDict

\* rowslots = fixedslots.copy()
rowslots_copy(fixedslots) == fixedslots

\* the loop over the product: Ok(allvariants) or the first exception
product_rows(n, rows) ==
    IF \E j \in DOMAIN rows : ~IsOk(rows[j]) THEN FirstRaise(rows)
    ELSE Ok(FullRows(rows, 1, n))

\* enharmonic_variations after enh[i] = enharmonic(notes[i])
variants_rows(notes, fixedslots, enh) ==
    IF \E i \in DOMAIN enh : ~IsOk(enh[i]) THEN FirstRaise(enh)
    ELSE product_rows(Len(notes),
            [j \in 1..Pow2(Len(notes)) |->
                WalkRow([i \in 1..Len(notes) |-> <<notes[i], enh[i].val>>],
                        ProductRow(Len(notes), j - 1), 1, <<>>,
                        rowslots_copy(fixedslots))])

\* variants_per_note and the loop over the product: Ok(allvariants) or the
\* first exception
all_variants(notes, fixedslots) ==
    variants_rows(notes, fixedslots, [i \in 1..Len(notes) |-> variant_of(notes[i])])

Range(seq) == {seq[i] : i \in DOMAIN seq}

\* list(set(xs)): the distinct elements of xs, in an order the hashing picks
RECURSIVE ListsOfSet(_)
ListsOfSet(S) ==
    IF S = {} THEN {<<>>}
    ELSE UNION {{<<x>> \o rest : rest \in ListsOfSet(S \ {x})} : x \in S}

\* a return that ignores force
variations_unforced(notes, force, allvariants) ==
    IF ~IsOk(allvariants) THEN {allvariants}
    ELSE {Ok(out) : out \in ListsOfSet(Range(allvariants.val))}

\* the last two lines of enharmonic_variations: every value they can return
\* (one for each order of list(set(allvariants)))
variations_return(notes, force, allvariants) ==
    IF ~IsOk(allvariants) THEN {allvariants}
    ELSE {Ok(IF Len(out) > 0 \/ ~force THEN out ELSE <<notes>>) :
             out \in ListsOfSet(Range(allvariants.val))}

\* enharmonic_variations(notes, fixedslots, force): every value the call can
\* return (one for each order of list(set(allvariants))), or its exception
enharmonic_variations(notes, fixedslots, force) ==
    variations_return(notes, force, all_variants(notes, fixedslots))

---------------------------------------------------------------------------
(* A script calls enharmonic_variations on a short list of notes *)

MaxNotes == 3

\* no fixed slot, or one slot fixed: an eligible one (1, 2) or the slot of D (4)
FixedSlotsChoices ==
    {EmptyDict} \cup {[k \in {s} |-> d] : s \in {1, 2, 4}, d \in {-1, 0, 1}}

InitVariations ==
    /\ converter = PitchConverter(A4Default, TRUE)
    /\ pc = "start"
    /\ arg \in [notes : UNION {[1..n -> NotePool] : n \in 0..MaxNotes},
                fixedslots : FixedSlotsChoices,
                force : BOOLEAN]
    /\ res = NotCalled

CallVariations ==
    /\ pc = "start"
    /\ res' \in enharmonic_variations(arg.notes, arg.fixedslots, arg.force)
    /\ pc' = "variations"
    /\ UNCHANGED <<converter, arg>>

NextVariations == CallVariations

SpecVariations == InitVariations /\ [][NextVariations]_vars

\* the slot of a notename (2 divisions per semitone) and its direction
slot_of(notename) == walk_step(notename).slotindex
direction_of(notename) == walk_step(notename).dir

Returned == pc = "variations" /\ IsOk(res)

\* C5: without force, no returned tuple holds two notes on the same
\* enharmonic-eligible slot with opposite alteration directions.
C5_NoOppositeDirections ==
    (Returned /\ ~arg.force) =>
        \A k \in DOMAIN res.val : \A i, j \in DOMAIN res.val[k] :
            LET a == res.val[k][i]
                b == res.val[k][j]
            IN (slot_of(a) = slot_of(b) /\ slot_of(a) \notin non_enharmonic_slots)
                   => ~(direction_of(a) = 1 /\ direction_of(b) = -1)

\* C# and Db an octave apart were given: both tuples returned spell the two
\* notes alike, the two mixed spellings were abandoned
C5_Witness ==
    /\ Returned /\ ~arg.force /\ arg.fixedslots = EmptyDict
    /\ arg.notes = <<<<"4", "C", "#">>, <<"5", "D", "b">>>>
    /\ Range(res.val) = {<<<<"4", "C", "#">>, <<"5", "C", "#">>>>,
                         <<<<"4", "D", "b">>, <<"5", "D", "b">>>>}

\* C6: every returned tuple has len(notes) entries, entry i is notes[i] or
\* enharmonic(notes[i]), and no tuple is returned twice.
C6_FullDistinctRows ==
    Returned =>
        /\ \A k \in DOMAIN res.val :
              /\ Len(res.val[k]) = Len(arg.notes)
              /\ \A i \in DOMAIN res.val[k] :
                    \/ res.val[k][i] = arg.notes[i]
                    \/ Ok(res.val[k][i]) = variant_of(arg.notes[i])
        /\ \A k, l \in DOMAIN res.val : k # l => res.val[k] # res.val[l]

\* three notes of which the combinations kept were fewer than the product
\* and some were equal: the list returned is shorter than allvariants
C6_Witness ==
    /\ Returned /\ Len(arg.notes) = 3
    /\ \E k \in DOMAIN res.val : res.val[k] # arg.notes
    /\ LET allvariants == all_variants(arg.notes, arg.fixedslots).val
       IN Len(res.val) < Len(allvariants) /\ Len(allvariants) < Pow2(3)

\* C7 as stated: for every slot s that fixedslots maps to +1 or -1, every
\* note on slot s in every returned tuple (force=False) has that direction.
C7_FixedSlotsAnySlot ==
    (Returned /\ ~arg.force) =>
        \A s \in DOMAIN arg.fixedslots : arg.fixedslots[s] \in {1, -1} =>
            \A k \in DOMAIN res.val : \A i \in DOMAIN res.val[k] :
                slot_of(res.val[k][i]) = s
                    => direction_of(res.val[k][i]) = arg.fixedslots[s]

\* C7 amended: for every enharmonic-eligible slot s that fixedslots maps to
\* +1 or -1, every note on slot s in every returned tuple (force=False) has
\* that direction.
C7_FixedSlotsEligible ==
    (Returned /\ ~arg.force) =>
        \A s \in (DOMAIN arg.fixedslots) \ non_enharmonic_slots :
            arg.fixedslots[s] \in {1, -1} =>
                \A k \in DOMAIN res.val : \A i \in DOMAIN res.val[k] :
                    slot_of(res.val[k][i]) = s
                        => direction_of(res.val[k][i]) = arg.fixedslots[s]

\* slot 2 was fixed to flats and C# was given: only Db came back
C7_Witness ==
    /\ Returned /\ ~arg.force
    /\ arg.fixedslots = [k \in {2} |-> -1]
    /\ arg.notes = <<<<"4", "C", "#">>>>
    /\ res.val = <<<<<<"4", "D", "b">>>>>>

\* C8: with force the call returns a non-empty list, which is [tuple(notes)]
\* when no combination is consistent; without force it returns [] then; and
\* when a combination is consistent the value returned is one the call can
\* return with the other setting of force.
C8_Force ==
    Returned =>
        LET allvariants == all_variants(arg.notes, arg.fixedslots).val
        IN /\ arg.force => Len(res.val) > 0
           /\ (Len(allvariants) = 0 /\ arg.force) => res.val = <<arg.notes>>
           /\ (Len(allvariants) = 0 /\ ~arg.force) => res.val = <<>>
           /\ Len(allvariants) > 0 =>
                 res \in enharmonic_variations(arg.notes, arg.fixedslots, ~arg.force)

\* C+ and then a C raised by 30 cents share slot 1 with directions +1 and 0:
\* no combination is consistent and force hands the input back
C8_Witness ==
    /\ Returned /\ arg.force
    /\ arg.notes = <<<<"4", "C", "+">>, <<"4", "C", "+", "3", "0">>>>
    /\ all_variants(arg.notes, arg.fixedslots) = Ok(<<>>)
    /\ res.val = <<arg.notes>>

\* the combinations of {original, enharmonic} choices for notes
Combinations(notes) ==
    {[i \in 1..Len(notes) |-> IF i \in S THEN variant_of(notes[i]).val ELSE notes[i]] :
        S \in SUBSET (1..Len(notes))}

\* two notes of row lie on one enharmonic-eligible slot with directions +1 and -1
OppositeNonzero(row) ==
    \E i, j \in DOMAIN row :
        /\ slot_of(row[i]) = slot_of(row[j])
        /\ slot_of(row[i]) \notin non_enharmonic_slots
        /\ direction_of(row[i]) = 1 /\ direction_of(row[j]) = -1

\* C23: without fixed slots and without force, the call returns every
\* combination of {original, enharmonic} choices in which no two notes on
\* the same eligible slot have opposite nonzero directions; a direction of 0
\* rejects nothing.
C23_OnlyOppositeNonzeroRejected ==
    (Returned /\ ~arg.force /\ arg.fixedslots = EmptyDict) =>
        Range(res.val) = {row \in Combinations(arg.notes) : ~OppositeNonzero(row)}

NotePermutations(n) ==
    {p \in [1..n -> 1..n] : \A i, j \in 1..n : p[i] = p[j] => i = j}

Permuted(seq, p) == [i \in 1..Len(seq) |-> seq[p[i]]]

\* C28: without force, for every permutation p of the notes, the tuples
\* returned for the permuted list are the tuples returned for the original
\* list, each permuted by p.
C28_OrderIndependent ==
    (Returned /\ ~arg.force) =>
        \A p \in NotePermutations(Len(arg.notes)) :
            /\ IsOk(all_variants(Permuted(arg.notes, p), arg.fixedslots))
            /\ Range(all_variants(Permuted(arg.notes, p), arg.fixedslots).val)
                   = {Permuted(row, p) : row \in Range(res.val)}

\* what holds: a list in which no note has direction 0 on an eligible slot
\* gives the same tuples in every order
C28_OrderIndependentNonzero ==
    (Returned /\ ~arg.force
        /\ (\A i \in DOMAIN arg.notes :
              \A n \in {arg.notes[i], variant_of(arg.notes[i]).val} :
                  (slot_of(n) \in non_enharmonic_slots \/ direction_of(n) # 0))
        /\ (\A s \in DOMAIN arg.fixedslots : arg.fixedslots[s] # 0)) =>
        \A p \in NotePermutations(Len(arg.notes)) :
            Range(all_variants(Permuted(arg.notes, p), arg.fixedslots).val)
                = {Permuted(row, p) : row \in Range(res.val)}


---------------------------------------------------------------------------
(* is_valid_notename, and a script that hands arbitrary input to the parser *)

MinPitchDefault == 12

\* is_valid_notename(notename, minpitch): only ValueError is caught
is_valid_notename(notename, minpitch) ==
    LET midi == n2m(notename)
    IN IF IsOk(midi) THEN Ok(midi.val >= minpitch * 100)
       ELSE IF midi.exc = "ValueError" THEN Ok(FALSE)
       ELSE midi

MaxLen == 4

\* an octave digit, a letter, the two alterations (b is also a letter), the
\* letter H, a character of the alteration class that is no alteration, and
\* a microtone sign
ParseAlphabet == {"4", "C", "#", "b", "H", "|", "+"}

TextInputs == {PyStr(s) : s \in UNION {[1..n -> ParseAlphabet] : n \in 0..MaxLen}}

\* None, 60.0 and 60
OtherInputs == {PyNone, PyFloat(6000), PyInt(60)}

InitParse ==
    /\ converter = PitchConverter(A4Default, TRUE)
    /\ pc = "start"
    /\ \/ arg \in [note : TextInputs]
       \/ arg \in [note : OtherInputs]
    /\ res = NotCalled

ParseN2m ==
    /\ pc = "start"
    /\ res' = n2m(arg.note)
    /\ pc' = "n2m"
    /\ UNCHANGED <<converter, arg>>

ParseIsValid ==
    /\ pc = "start"
    /\ res' = is_valid_notename(arg.note, MinPitchDefault)
    /\ pc' = "is_valid_notename"
    /\ UNCHANGED <<converter, arg>>

NextParse == ParseN2m \/ ParseIsValid

SpecParse == InitParse /\ [][NextParse]_vars

\* a letter A-H followed by '##' or by 'bb'
DoubleAlteration(s) ==
    \E i \in 1..(Len(s) - 2) :
        /\ s[i] \in LetterAH
        /\ s[i + 1] \in {"#", "b"}
        /\ s[i + 2] = s[i + 1]

\* C9: n2m raises its parse error for every notename with a double
\* alteration, whichever of octave and letter comes first; it never returns
\* a midinote for it.
C9_DoubleAlterationRejected ==
    (pc = "n2m" /\ isinstance_str(arg.note) /\ DoubleAlteration(arg.note.val)) =>
        (~IsOk(res) /\ res.exc = "ValueError")

\* C10: is_valid_notename returns False, and does not raise, for every input
\* on which n2m raises.
C10_InvalidIsFalse ==
    (pc = "is_valid_notename" /\ ~IsOk(n2m(arg.note))) => res = Ok(FALSE)

\* the text of a match is the whole of s
Spans(m, s) == m.matched /\ Len(m.pch) + Len(m.oct) + Len(m.micro) = Len(s)

\* s as a whole is a notename of one of the two grammars
FullMatch(s) == Spans(R1At(s, 1), s) \/ Spans(R2At(s, 1), s)

\* C27: n2m returns a midinote only when the whole input matches one of the
\* two grammars; input with characters before or after a notename is
\* rejected with the parse error.
C27_WholeInputParsed ==
    (pc = "n2m" /\ isinstance_str(arg.note) /\ ~FullMatch(arg.note.val)) =>
        (~IsOk(res) /\ res.exc \in {"ValueError", "IndexError"})

\* what holds: input that is a notename as a whole is parsed unless its
\* alteration is '|' or its letter H
C27_WholeNotenameAccepted ==
    (pc = "n2m" /\ isinstance_str(arg.note) /\ FullMatch(arg.note.val)
        /\ ~Contains(arg.note.val, "|") /\ ~Contains(arg.note.val, "H")) => IsOk(res)

---------------------------------------------------------------------------
(* A script parses one pitch written octave-first and letter-first *)

FormOctaves == {-1, 4, 10}

FormSuffixes == {<<>>, <<"+">>, <<"-">>, <<">">>, <<"<">>, <<"+", "2", "5">>, <<"-", "2", "5">>}

\* the letter-first writing: "c4+25" (suffix last) or "c>4" (suffix before the
\* octave, as in the notation table of the module docstring)
LetterFirst(a) ==
    LET l == IF a.lowercase THEN lower(a.letter) ELSE a.letter
    IN IF a.suffix_first
       THEN <<l>> \o a.alter \o a.suffix \o str(a.octave)
       ELSE <<l>> \o a.alter \o str(a.octave) \o a.suffix

OctaveFirst(a) == str(a.octave) \o <<a.letter>> \o a.alter \o a.suffix

InitForms ==
    /\ converter = PitchConverter(A4Default, TRUE)
    /\ pc = "start"
    /\ arg \in [letter : InputLetters, alter : InputAlterations,
                octave : FormOctaves, suffix : FormSuffixes,
                lowercase : BOOLEAN, suffix_first : BOOLEAN]
    /\ res = [octave_first |-> NotCalled, letter_first |-> NotCalled]

ParseOctaveFirst ==
    /\ pc = "start"
    /\ res' = [res EXCEPT !.octave_first = n2m(PyStr(OctaveFirst(arg)))]
    /\ pc' = "one"
    /\ UNCHANGED <<converter, arg>>

ParseLetterFirst ==
    /\ pc = "one"
    /\ res' = [res EXCEPT !.letter_first = n2m(PyStr(LetterFirst(arg)))]
    /\ pc' = "both"
    /\ UNCHANGED <<converter, arg>>

NextForms == ParseOctaveFirst \/ ParseLetterFirst

SpecForms == InitForms /\ [][NextForms]_vars

\* C11: n2m returns the same midinote for the octave-first and the
\* letter-first writing of a pitch, in either case of the letter, the
\* alternatives of the notation table (c>4, d#+4) included.
C11_SameMidinoteBothForms ==
    pc = "both" =>
        /\ IsOk(res.octave_first)
        /\ res.letter_first = res.octave_first

---------------------------------------------------------------------------
(* The reference frequency: the default converter and ad-hoc instances.
   Here the variable converter maps each converter object to its fields, arg
   remembers for each object the configuration last given to it, and pc
   counts the calls of set_reference_freq. *)

\* PitchConverter.set_reference_freq
set_reference_freq(self, a4) == [self EXCEPT !.a4 = a4]

\* PitchConverter.get_reference_freq
get_reference_freq(self) == self.a4

RECURSIVE TwoTo(_)
TwoTo(k) == IF k = 0 THEN 1 ELSE 2 * TwoTo(k - 1)

\* PitchConverter.m2f for the A's from A4 upwards (midinote in cents, the
\* frequency in Hz): 2**((midinote-69)/12.0) is then a whole power of two and
\* the product exact
m2f(self, midinote) == TwoTo((midinote - 6900) \div 1200) * self.a4

\* the objects: the module's _converter and two instances made by a caller
ConverterIds == {"_converter", "cnv1", "cnv2"}

RefFreqs == {435, 440, 442}

\* a call that sets the reference of every object, as a class attribute would
set_reference_freq_shared(objects, id, a4) ==
    [c \in DOMAIN objects |-> set_reference_freq(objects[c], a4)]

\* obj.set_reference_freq(a4) on the object id: only self is assigned
set_reference_freq_of(objects, id, a4) ==
    [objects EXCEPT ![id] = set_reference_freq(objects[id], a4)]

MaxSets == 3

InitConverters ==
    /\ converter \in {f \in [ConverterIds -> {PitchConverter(a, e) : a \in RefFreqs \cup {A4Default},
                                                                    e \in BOOLEAN}] :
                        f["_converter"] = PitchConverter(A4Default, TRUE)}
    /\ pc = 0
    /\ arg = converter
    /\ res = NotCalled

SetReferenceFreq ==
    /\ pc < MaxSets
    /\ \E id \in ConverterIds, a4 \in RefFreqs :
          /\ converter' = set_reference_freq_of(converter, id, a4)
          /\ arg' = [arg EXCEPT ![id].a4 = a4]
    /\ pc' = pc + 1
    /\ UNCHANGED res

GetReferenceFreq ==
    /\ \E id \in ConverterIds :
          res' = Ok([id |-> id, freq |-> get_reference_freq(converter[id]),
                     a4 |-> m2f(converter[id], 6900)])
    /\ UNCHANGED <<converter, pc, arg>>

NextConverters == SetReferenceFreq \/ GetReferenceFreq

SpecConverters == InitConverters /\ [][NextConverters]_vars

\* C12: each converter's get_reference_freq() and m2f(69) are the value last
\* set on that converter, or its construction value, and its eighth-tone
\* option is the one it was made with, whatever was set on the others.
C12_ReferencePerConverter ==
    \A id \in ConverterIds :
        /\ get_reference_freq(converter[id]) = arg[id].a4
        /\ m2f(converter[id], 6900) = arg[id].a4
        /\ converter[id].eighthnote_symbol = arg[id].eighthnote_symbol

\* the default converter was set to 440 and cnv2 to 435; cnv1, made with 435
\* and without eighth-tone symbols, still answers 435
C12_Witness ==
    /\ pc = 2
    /\ arg["_converter"].a4 = 440
    /\ arg["cnv2"] = PitchConverter(435, TRUE)
    /\ converter["cnv1"] = PitchConverter(435, FALSE)
    /\ res = Ok([id |-> "cnv1", freq |-> 435, a4 |-> 435])
    /\ converter["cnv2"].a4 # converter["_converter"].a4

---------------------------------------------------------------------------
(* Conversions running while another thread sets the reference frequency.
   A frequency is a whole number of Hz.  The float 12*log2(freq/a4)+69 is
   kept exactly as the pair of its whole octaves above A4, in cents, and the
   odd ratio left over: two quotients are the same float when and only when
   these pairs are equal. *)

RECURSIVE OddPart(_)
OddPart(n) == IF n % 2 = 0 THEN OddPart(n \div 2) ELSE n

RECURSIVE TwoExp(_)
TwoExp(n) == IF n % 2 = 0 THEN 1 + TwoExp(n \div 2) ELSE 0

RECURSIVE GCD(_, _)
GCD(a, b) == IF b = 0 THEN a ELSE GCD(b, a % b)

\* PitchConverter.f2m, given the value read from self.a4
f2m_a4(a4, freq) ==
    IF freq < 9 THEN [cents |-> 0, ratio |-> <<1, 1>>]
    ELSE LET g == GCD(OddPart(freq), OddPart(a4))
         IN [cents |-> 6900 + 1200 * (TwoExp(freq) - TwoExp(a4)),
             ratio |-> <<OddPart(freq) \div g, OddPart(a4) \div g>>]

f2m(self, freq) == f2m_a4(self.a4, freq)

\* round(x * semitone_divisions) / semitone_divisions of freq_round with the
\* default semitone_divisions=1, for an x that is a whole number of octaves
\* away from A4
round_semitone(x) == x.cents

\* PitchConverter.freq_round
freq_round(self, freq) == m2f(self, round_semitone(f2m(self, freq)))

\* PitchConverter.n2f, for a notename n2m accepts
n2f(self, note) == m2f(self, n2m(PyStr(note)).val)

\* PitchConverter.f2n
f2n(self, freq) == m2n(self, f2m(self, freq).cents)

\* srev.find(c) for srev = s[::-1]
RECURSIVE rfind_from(_, _, _)
rfind_from(s, c, i) ==
    IF i >= Len(s) THEN -1
    ELSE IF s[Len(s) - i] = c THEN i
    ELSE rfind_from(s, c, i + 1)

srev_find(s, c) == rfind_from(s, c, 0)

\* float(x) of str2midi for a str of decimal digits
float_digits(x) == DigitsVal(x)

\* the notename and the frequency offset str2midi takes from 'note+NHz' or
\* 'note-NHz' (one of the signs is present)
str2midi_split(s) ==
    LET minusidx == srev_find(s, "-")
        plusidx == srev_find(s, "+")
        n == Len(s)
        minus == [freq |-> -float_digits(Slice(s, n - minusidx, n - 2)),
                  notename |-> Slice(s, 0, n - minusidx - 1)]
        plus == [freq |-> float_digits(Slice(s, n - plusidx, n - 2)),
                 notename |-> Slice(s, 0, n - plusidx - 1)]
    IN IF minusidx > 0 /\ plusidx > 0
       THEN IF minusidx < plusidx THEN minus ELSE plus
       ELSE IF minusidx > 0 THEN minus ELSE plus

\* PitchConverter.str2midi for 'note+NHz' and 'note-NHz'
str2midi(self, s) ==
    LET p == str2midi_split(s)
    IN f2m(self, n2f(self, p.notename) + p.freq)

\* the references of the script are octaves of one another, and the
\* frequencies lie at or above them
OctaveRefs == {221, 442, 884}

RoundFreqs == {884, 1768}

HzStrings == {<<"4", "A", "+", "4", "4", "2", "h", "z">>,
              <<"5", "A", "-", "4", "4", "2", "H", "z">>,
              <<"5", "A", "+", "0", "h", "z">>,
              <<"5", "A", "+", "0", "-", "4", "4", "2", "h", "z">>}

InitConcurrent ==
    /\ \E old \in OctaveRefs, new \in OctaveRefs, e \in BOOLEAN :
          /\ converter = PitchConverter(old, e)
          /\ \/ \E f \in RoundFreqs :
                  arg = [call |-> "freq_round", freq |-> f, old |-> old, new |-> new]
             \/ \E f \in RoundFreqs :
                  arg = [call |-> "f2n", freq |-> f, old |-> old, new |-> new]
             \/ \E t \in HzStrings :
                  arg = [call |-> "str2midi", s |-> t, old |-> old, new |-> new]
    /\ pc = [caller |-> "start", setter |-> "ready"]
    /\ res = NotCalled

\* the other thread: set_reference_freq(new)
ThreadSetReference ==
    /\ pc.setter = "ready"
    /\ converter' = set_reference_freq(converter, arg.new)
    /\ pc' = [pc EXCEPT !.setter = "done"]
    /\ UNCHANGED <<arg, res>>

\* freq_round: the argument self.f2m(freq) is evaluated, reading self.a4
FreqRoundF2m ==
    /\ pc.caller = "start" /\ arg.call = "freq_round"
    /\ res' = [midinote |-> round_semitone(f2m(converter, arg.freq))]
    /\ pc' = [pc EXCEPT !.caller = "f2m_done"]
    /\ UNCHANGED <<converter, arg>>

\* freq_round: self.m2f(...) reads self.a4 again and returns
FreqRoundM2f ==
    /\ pc.caller = "f2m_done" /\ arg.call = "freq_round"
    /\ res' = Ok(m2f(converter, res.midinote))
    /\ pc' = [pc EXCEPT !.caller = "done"]
    /\ UNCHANGED <<converter, arg>>

\* str2midi: self.n2f(notename)+freq is evaluated, m2f reading self.a4
Str2midiN2f ==
    /\ pc.caller = "start" /\ arg.call = "str2midi"
    /\ LET p == str2midi_split(arg.s)
       IN res' = [freq |-> n2f(converter, p.notename) + p.freq]
    /\ pc' = [pc EXCEPT !.caller = "n2f_done"]
    /\ UNCHANGED <<converter, arg>>

\* str2midi: self.f2m(...) reads self.a4 again and returns
Str2midiF2m ==
    /\ pc.caller = "n2f_done" /\ arg.call = "str2midi"
    /\ res' = Ok(f2m(converter, res.freq))
    /\ pc' = [pc EXCEPT !.caller = "done"]
    /\ UNCHANGED <<converter, arg>>

\* f2n: the argument self.f2m(freq) is evaluated, reading self.a4
F2nF2m ==
    /\ pc.caller = "start" /\ arg.call = "f2n"
    /\ res' = [midinote |-> f2m(converter, arg.freq).cents]
    /\ pc' = [pc EXCEPT !.caller = "f2m_done"]
    /\ UNCHANGED <<converter, arg>>

\* f2n: self.m2n(...) returns; it does not read self.a4
F2nM2n ==
    /\ pc.caller = "f2m_done" /\ arg.call = "f2n"
    /\ res' = Ok(m2n(converter, res.midinote))
    /\ pc' = [pc EXCEPT !.caller = "done"]
    /\ UNCHANGED <<converter, arg>>

NextConcurrent ==
    \/ ThreadSetReference
    \/ FreqRoundF2m \/ FreqRoundM2f
    \/ Str2midiN2f \/ Str2midiF2m
    \/ F2nF2m \/ F2nM2n

SpecConcurrent == InitConcurrent /\ [][NextConcurrent]_vars

\* the result of the call of arg made alone on a converter whose reference is a4
AloneResult(a4) ==
    LET self == PitchConverter(a4, converter.eighthnote_symbol)
    IN IF arg.call = "freq_round" THEN Ok(freq_round(self, arg.freq))
       ELSE IF arg.call = "f2n" THEN Ok(f2n(self, arg.freq))
       ELSE Ok(str2midi(self, arg.s))

\* C13: a conversion call that runs while set_reference_freq is called
\* returns what it returns alone under the old reference or under the new
\* one, never a value computed from both.
C13_OneReferencePerCall ==
    pc.caller = "done" => res \in {AloneResult(arg.old), AloneResult(arg.new)}

\* what holds: f2n reads the reference once
C13_F2nOneReference ==
    (pc.caller = "done" /\ arg.call = "f2n")
        => res \in {AloneResult(arg.old), AloneResult(arg.new)}

---------------------------------------------------------------------------
(* The caches of split_notename and _notated_pitch_notename.  functools.cache
   keeps the object a call returned and hands the same object to every later
   call with the same argument; NoteParts and NotatedPitch are dataclasses
   that are not frozen.  Here arg holds the two caches, an entry being the
   object itself, and res the value a call returned, as it was at the
   return. *)

CacheKeys == {<<"4", "C", "#", "+", "1", "0">>, <<"D", "4", "-">>, <<"4", "X">>}

AssignedOctaves == {0, 7}

\* functools.cache: the stored object on a hit, else the fresh result; an
\* exception is not stored
cache_lookup(table, key, fresh) == IF IsOk(table[key]) THEN table[key] ELSE fresh

cache_store(table, key, r) == IF IsOk(r) THEN [table EXCEPT ![key] = r] ELSE table

\* _notated_pitch_notename run on a miss: its split_notename is the cached one
notated_from_parts(parts) == IF ~IsOk(parts) THEN parts ELSE NotatedPitch(parts.val)

InitCache ==
    /\ converter = PitchConverter(A4Default, TRUE)
    /\ pc = "start"
    /\ arg = [split_notename |-> [k \in CacheKeys |-> NotCalled],
              _notated_pitch_notename |-> [k \in CacheKeys |-> NotCalled]]
    /\ res = NotCalled

CachedSplitNotename ==
    /\ \E k \in CacheKeys :
          LET r == cache_lookup(arg.split_notename, k, split_notename(k))
          IN /\ res' = [fn |-> "split_notename", key |-> k, val |-> r]
             /\ arg' = [arg EXCEPT !.split_notename = cache_store(@, k, r)]
    /\ pc' = "returned"
    /\ UNCHANGED converter

CachedNotatedPitch ==
    /\ \E k \in CacheKeys :
          LET parts == cache_lookup(arg.split_notename, k, split_notename(k))
              r == cache_lookup(arg._notated_pitch_notename, k, notated_from_parts(parts))
          IN /\ res' = [fn |-> "notated_pitch", key |-> k, val |-> r]
             /\ arg' = IF IsOk(arg._notated_pitch_notename[k]) THEN arg
                       ELSE [split_notename |-> cache_store(arg.split_notename, k, parts),
                             _notated_pitch_notename |->
                                 cache_store(arg._notated_pitch_notename, k, r)]
    /\ pc' = "returned"
    /\ UNCHANGED converter

\* the caller assigns to the field octave of the object it was returned
AssignOctave ==
    /\ pc \in {"returned", "assigned"}
    /\ IsOk(res.val)
    /\ \E o \in AssignedOctaves :
          arg' = IF res.fn = "split_notename"
                 THEN [arg EXCEPT !.split_notename[res.key].val.octave = o]
                 ELSE [arg EXCEPT !._notated_pitch_notename[res.key].val.octave = o]
    /\ pc' = "assigned"
    /\ UNCHANGED <<converter, res>>

NextCache == CachedSplitNotename \/ CachedNotatedPitch \/ AssignOctave

SpecCache == InitCache /\ [][NextCache]_vars

\* C14: whatever callers did with the values returned before, split_notename(s)
\* and notated_pitch(s) return a value equal to a fresh computation for s.
C14_CacheTransparent ==
    pc = "returned" =>
        res.val = IF res.fn = "split_notename" THEN split_notename(res.key)
                  ELSE notated_pitch(res.key)

---------------------------------------------------------------------------
(* notated_pitch of a numeric midinote *)

\* _roundres(x, 1/divisions) for a midinote x in cents and divisions 1, 2 or 4:
\* x/(1/divisions) is exact, round() takes a tie to the even number
_roundres(x, divisions) == RoundDiv(x * divisions, 100) * (100 \div divisions)

\* the functions the module defines under a name beginning with _round
module_defines(name) == name \in {"_roundres"}

\* notated_pitch(pitch, semitone_divisions) for an int or float pitch: the
\* body looks up the name _roundred; were it bound to _roundres, the float it
\* returns would reach split_notename, which indexes its argument
notated_pitch_numeric(pitch, semitone_divisions) ==
    IF ~module_defines("_roundred") THEN Raise("NameError")
    ELSE Raise("TypeError")

DivisionsChoices == {1, 2, 4}

InitNotated ==
    /\ converter = PitchConverter(A4Default, TRUE)
    /\ pc = "start"
    /\ arg \in [pitch : 0..(MaxMidi * 100 + 99), semitone_divisions : DivisionsChoices]
    /\ res = NotCalled

CallNotatedPitchNumeric ==
    /\ pc = "start"
    /\ res' = notated_pitch_numeric(arg.pitch, arg.semitone_divisions)
    /\ pc' = "done"
    /\ UNCHANGED <<converter, arg>>

NextNotated == CallNotatedPitchNumeric

SpecNotated == InitNotated /\ [][NextNotated]_vars

\* C15: notated_pitch(m, d) of a numeric midinote m does not fail and equals
\* notated_pitch(m2n(q)), q being m snapped to the nearest multiple of 1/d.
C15_NumericNotatedPitch ==
    pc = "done" =>
        /\ IsOk(res)
        /\ res = notated_pitch(_converter_m2n(_roundres(arg.pitch, arg.semitone_divisions)))

---------------------------------------------------------------------------
(* cents_repr with both settings of eighthToneShortcuts *)

\* _cents_repr_eighthtones.get(cents) and _cents_repr_quartertones.get(cents):
\* Raise("KeyError") stands for None
cents_repr_shortcut(cents, eighthToneShortcuts) ==
    CASE cents = 0 -> Ok(<<>>)
      [] cents = 50 -> Ok(<<"+">>)
      [] cents = -50 -> Ok(<<"-">>)
      [] cents = 25 /\ eighthToneShortcuts -> Ok(<<">">>)
      [] cents = -25 /\ eighthToneShortcuts -> Ok(<<"<">>)
      [] OTHER -> Raise("KeyError")

\* cents_repr(cents, eighthToneShortcuts): `if shortcut:` is false for None
\* and for the empty string
cents_repr_with(cents, eighthToneShortcuts) ==
    LET shortcut == cents_repr_shortcut(cents, eighthToneShortcuts)
    IN IF IsOk(shortcut) /\ Len(shortcut.val) > 0 THEN shortcut.val
       ELSE IF cents > 0 THEN <<"+">> \o str(cents) ELSE str(cents)

InitCents ==
    /\ converter = PitchConverter(A4Default, TRUE)
    /\ pc = "start"
    /\ arg \in [cents : -MaxCents..MaxCents, eighthToneShortcuts : BOOLEAN]
    /\ res = NotCalled

CallCentsRepr ==
    /\ pc = "start"
    /\ res' = Ok(cents_repr_with(arg.cents, arg.eighthToneShortcuts))
    /\ pc' = "done"
    /\ UNCHANGED <<converter, arg>>

NextCents == CallCentsRepr

SpecCents == InitCents /\ [][NextCents]_vars

\* the table of the docstring of cents_repr
cents_repr_table(cents, eighthToneShortcuts) ==
    IF cents = 0 THEN <<>>
    ELSE IF cents = 50 THEN <<"+">>
    ELSE IF cents = -50 THEN <<"-">>
    ELSE IF cents = 25 /\ eighthToneShortcuts THEN <<">">>
    ELSE IF cents = -25 /\ eighthToneShortcuts THEN <<"<">>
    ELSE IF cents > 0 THEN <<"+">> \o NatStr(cents)
    ELSE <<"-">> \o NatStr(-cents)

\* C21: cents_repr gives '' for 0, '+' and '-' for 50 and -50, '>' and '<'
\* for 25 and -25 with eighthToneShortcuts, and the signed decimal, with an
\* explicit '+', for every other value.
C21_CentsReprTable ==
    pc = "done" => res = Ok(cents_repr_table(arg.cents, arg.eighthToneShortcuts))

\* away from 0 the function follows the table
C21_CentsReprNonZero ==
    (pc = "done" /\ arg.cents # 0)
        => res = Ok(cents_repr_table(arg.cents, arg.eighthToneShortcuts))

\* the one-argument cents_repr used by enharmonic is the call with the default
C21_DefaultShortcuts ==
    (pc = "done" /\ arg.eighthToneShortcuts) => res = Ok(cents_repr(arg.cents))

---------------------------------------------------------------------------
(* A script formats a midinote and splits the notename into its parts *)

InitSplit ==
    /\ converter \in {PitchConverter(A4Default, e) : e \in BOOLEAN}
    /\ pc = "start"
    /\ arg \in [midinote : 0..(MaxMidi * 100 + 99)]
    /\ res = [name |-> <<>>, parts |-> NotCalled]

FormatMidinote ==
    /\ pc = "start"
    /\ res' = [res EXCEPT !.name = m2n(converter, arg.midinote)]
    /\ pc' = "formatted"
    /\ UNCHANGED <<converter, arg>>

SplitFormatted ==
    /\ pc = "formatted"
    /\ res' = [res EXCEPT !.parts = split_notename(res.name)]
    /\ pc' = "split"
    /\ UNCHANGED <<converter, arg>>

NextSplit == FormatMidinote \/ SplitFormatted

SpecSplit == InitSplit /\ [][NextSplit]_vars

\* C22: for every midinote m, m2n(m) splits into a cents_deviation greater
\* than -50 and at most 50.
C22_DeviationHalfOpen ==
    pc = "split" =>
        /\ IsOk(res.parts)
        /\ res.parts.val.cents_deviation > -50
        /\ res.parts.val.cents_deviation <= 50

\* what holds: no notename that splits has a deviation beyond 50 cents either way
C22_DeviationClosed ==
    (pc = "split" /\ IsOk(res.parts)) =>
        /\ res.parts.val.cents_deviation >= -50
        /\ res.parts.val.cents_deviation <= 50

\* -50 is reached for a quarter tone above a black key only
C22_MinusFiftyAboveBlackKey ==
    (pc = "split" /\ IsOk(res.parts) /\ res.parts.val.cents_deviation = -50) =>
        /\ arg.midinote % 100 = 50
        /\ ((arg.midinote \div 100) % 12) \in _black_key_indexes

\* the midinote, in cents, that the parts of a notename denote
parts_midinote(parts) ==
    (parts.octave + 1) * 1200
    + _pitchclass_chromatic(<<parts.diatonic_name>> \o parts.alteration).val * 100
    + parts.cents_deviation

\* C26: for every midinote m of 0..127, split_notename(m2n(m)) succeeds and
\* its octave, letter, alteration and cents denote m.
C26_SplitAcceptsFormatted ==
    pc = "split" =>
        /\ IsOk(res.parts)
        /\ IsOk(_pitchclass_chromatic(<<res.parts.val.diatonic_name>>
                                       \o res.parts.val.alteration))
        /\ parts_midinote(res.parts.val) = arg.midinote

\* what holds: from octave 0 on (midinote 12 and above) the parts denote m
C26_SplitFromOctaveZero ==
    (pc = "split" /\ arg.midinote >= 1200) =>
        /\ IsOk(res.parts)
        /\ parts_midinote(res.parts.val) = arg.midinote

---------------------------------------------------------------------------
(* The arguments of enharmonic_variations after the call.  The caller's
   fixedslots is a dict object; rowslots is bound anew for each combination,
   and the walk assigns to rowslots[slotindex]. *)

\* rowslots = fixedslots: the same object under a second name
rowslots_alias(fixedslots) == [aliased |-> TRUE, slots |-> fixedslots]

\* rowslots = fixedslots.copy(): a new object with the same entries
rowslots_binding(fixedslots) == [aliased |-> FALSE, slots |-> fixedslots]

\* the dict rowslots when the inner loop ends, by exhaustion, by break or by
\* an exception of notated_pitch
RECURSIVE WalkSlots(_, _, _, _)
RECURSIVE WalkSlotsNote(_, _, _, _, _)
WalkSlotsNote(variants_per_note, indexes, i, rowslots, step) ==
    IF ~IsOk(step.notated) THEN rowslots
    ELSE IF step.slotindex \in non_enharmonic_slots
    THEN WalkSlots(variants_per_note, indexes, i + 1, rowslots)
    ELSE IF slot_accepts(rowslots, step.slotindex, step.dir)
    THEN WalkSlots(variants_per_note, indexes, i + 1,
                   SetSlot(rowslots, step.slotindex, step.dir))
    ELSE rowslots

WalkSlots(variants_per_note, indexes, i, rowslots) ==
    IF i > Len(variants_per_note) THEN rowslots
    ELSE WalkSlotsNote(variants_per_note, indexes, i, rowslots,
                       walk_step(PyIndex(variants_per_note[i], indexes[i])))

\* the caller's dict after one combination: written only if rowslots is it
fixedslots_written(binding, fixedslots, rowslots) ==
    IF binding.aliased THEN rowslots ELSE fixedslots

\* the caller's dict after the combinations j, j+1, ... of the product
RECURSIVE fixedslots_after_rows(_, _, _)
fixedslots_after_rows(variants_per_note, fixedslots, j) ==
    IF j > Pow2(Len(variants_per_note)) THEN fixedslots
    ELSE fixedslots_after_rows(variants_per_note,
            fixedslots_written(rowslots_binding(fixedslots), fixedslots,
                WalkSlots(variants_per_note,
                          ProductRow(Len(variants_per_note), j - 1), 1,
                          rowslots_binding(fixedslots).slots)),
            j + 1)

\* the caller's dict after enharmonic_variations(notes, fixedslots, force)
fixedslots_after_enh(notes, fixedslots, enh) ==
    IF \E i \in DOMAIN enh : ~IsOk(enh[i]) THEN fixedslots
    ELSE fixedslots_after_rows([i \in 1..Len(notes) |-> <<notes[i], enh[i].val>>],
                               fixedslots, 1)

fixedslots_after(notes, fixedslots) ==
    fixedslots_after_enh(notes, fixedslots, [i \in 1..Len(notes) |-> variant_of(notes[i])])

\* the caller's list after the call: notes is iterated, measured and copied
\* into a tuple, never assigned to
notes_after(notes) == notes

\* the longest list of notes a caller passes in a batch
MaxBatch == 2

InitFrame ==
    /\ converter = PitchConverter(A4Default, TRUE)
    /\ pc = "start"
    /\ arg \in [notes : UNION {[1..n -> NotePool] : n \in 0..MaxBatch},
                fixedslots : FixedSlotsChoices,
                force : BOOLEAN]
    /\ res = [before |-> arg, out |-> NotCalled]

\* a batch: the call, made with the objects the caller holds
CallVariationsBatch ==
    /\ pc \in {"start", "first"}
    /\ \E out \in enharmonic_variations(arg.notes, arg.fixedslots, arg.force) :
          res' = [res EXCEPT !.out = out]
    /\ arg' = [arg EXCEPT !.fixedslots = fixedslots_after(arg.notes, arg.fixedslots),
                          !.notes = notes_after(arg.notes)]
    /\ pc' = IF pc = "start" THEN "first" ELSE "second"
    /\ UNCHANGED converter

NextFrame == CallVariationsBatch

SpecFrame == InitFrame /\ [][NextFrame]_vars

\* C30: after any call, whatever it returns, the caller's fixedslots and
\* notes hold the entries they held before.
C30_ArgumentsUnchanged ==
    pc \in {"first", "second"} => arg = res.before

\* slot 1 was fixed to sharps, C+ and C# were walked and the walk recorded
\* slot 2 in rowslots: the mapping still holds its one entry after two batches
C30_Witness ==
    /\ pc = "second"
    /\ arg.fixedslots = [k \in {1} |-> 1]
    /\ arg.notes = <<<<"4", "C", "+">>, <<"4", "C", "#">>>>
    /\ IsOk(res.out) /\ Len(res.out.val) = 2
    /\ WalkSlots(<<<<arg.notes[1], arg.notes[1]>>, <<arg.notes[2], arg.notes[2]>>>>,
                 <<0, 0>>, 1, arg.fixedslots) # arg.fixedslots

---------------------------------------------------------------------------
(* A script transposes a note and then transposes the result *)

MaxChain == 12

ChainOctaves == {4}

InitChain ==
    /\ converter = PitchConverter(A4Default, TRUE)
    /\ pc = "start"
    /\ arg \in [notename : {str(o) \o r : o \in ChainOctaves, r \in TransposeRoots},
                k1 : -MaxChain..MaxChain,
                k2 : -MaxChain..MaxChain]
    /\ res = [first |-> NotCalled, second |-> NotCalled]

TransposeFirst ==
    /\ pc = "start"
    /\ res' = [res EXCEPT !.first = transpose(arg.notename, arg.k1 * 100, TRUE)]
    /\ pc' = "first"
    /\ UNCHANGED <<converter, arg>>

\* the result of the first call is handed to the second
TransposeSecond ==
    /\ pc = "first"
    /\ IsOk(res.first)
    /\ res' = [res EXCEPT !.second = transpose(res.first.val, arg.k2 * 100, TRUE)]
    /\ pc' = "second"
    /\ UNCHANGED <<converter, arg>>

NextChain == TransposeFirst \/ TransposeSecond

SpecChain == InitChain /\ [][NextChain]_vars

\* C29: for every root of the table and integer intervals k1 and k2,
\* transpose(n, k1) returns a notename that transpose accepts:
\* transpose(transpose(n, k1), k2) does not fail.
C29_ChainNeverFails ==
    /\ pc \in {"first", "second"} => IsOk(res.first)
    /\ pc = "second" => IsOk(res.second)

\* what holds: the second call fails only on a result spelled E#
C29_FailsOnlyOnESharp ==
    (pc = "second" /\ ~IsOk(res.second)) =>
        /\ HasSpelling(res.first.val, <<"E", "#">>)
        /\ res.second.exc = "TypeError"

---------------------------------------------------------------------------
(* Round trip: a script formats a midinote and parses the notename back *)

InitRoundTrip ==
    /\ converter \in {PitchConverter(A4Default, e) : e \in BOOLEAN}
    /\ pc = "start"
    /\ arg \in [midinote : 0..(MaxMidi * 100 + 99)]
    /\ res = [name |-> <<>>, midi |-> Raise("NotCalled")]

CallM2n ==
    /\ pc = "start"
    /\ res' = [res EXCEPT !.name = m2n(converter, arg.midinote)]
    /\ pc' = "formatted"
    /\ UNCHANGED <<converter, arg>>

CallN2m ==
    /\ pc = "formatted"
    /\ res' = [res EXCEPT !.midi = n2m(PyStr(res.name))]
    /\ pc' = "parsed"
    /\ UNCHANGED <<converter, arg>>

NextRoundTrip == CallM2n \/ CallN2m

SpecRoundTrip == InitRoundTrip /\ [][NextRoundTrip]_vars

\* C1: for every midinote m of 0..127 on the 1-cent grid and both settings
\* of the eighth-tone option, n2m(m2n(m)) returns m.
C1_RoundTrip ==
    pc = "parsed" => IsOk(res.midi) /\ res.midi.val = arg.midinote

\* an eighth-tone below a C was formatted as "<" an octave up and parsed back
C1_Witness ==
    /\ pc = "parsed"
    /\ converter.eighthnote_symbol
    /\ arg.midinote = 5975
    /\ res.name = <<"4", "C", "<">>
    /\ IsOk(res.midi)

EndsWith(s, t) == Len(s) >= Len(t) /\ SubSeq(s, Len(s) - Len(t) + 1, Len(s)) = t

\* C20: a converter made without the eighth-tone option never writes '>' or
\* '<' and writes a deviation of 25 cents as +25 or -25; with the option a
\* midinote a quarter or three quarters of a semitone above a key gets '>'
\* or '<' and no number.
C20_EighthToneOption ==
    pc \in {"formatted", "parsed"} =>
        IF converter.eighthnote_symbol
        THEN /\ arg.midinote % 100 = 25 => res.name[Len(res.name)] = ">"
             /\ arg.midinote % 100 = 75 => res.name[Len(res.name)] = "<"
        ELSE /\ ~Contains(res.name, ">") /\ ~Contains(res.name, "<")
             /\ arg.midinote % 100 = 25 => EndsWith(res.name, <<"+", "2", "5">>)
             /\ arg.midinote % 100 = 75 => EndsWith(res.name, <<"-", "2", "5">>)

\* m2n(60.75) of a converter without the option is '4Db-25'
C20_Witness ==
    /\ pc = "formatted"
    /\ ~converter.eighthnote_symbol
    /\ arg.midinote = 6075
    /\ res.name = <<"4", "D", "b", "-", "2", "5">>

====
